---- MODULE Spec2Model ----
(***************************************************************************)
(* A model of the eris error-chain library: the heap of error values       *)
(* (rootError, wrapError, foreign errors and errors.Join aggregates), the  *)
(* chain builder (New, Errorf, Wrap, Wrapf, PassThrough, Join, With), the  *)
(* traversal functions (Unwrap, Cause) and the string renderer.            *)
(*                                                                         *)
(* An error value is a pointer: a positive index into heap, 0 for nil.     *)
(* A *stack is a pointer too: a positive index into stacks, 0 for nil.     *)
(***************************************************************************)
EXTENDS Integers, Sequences, FiniteSets

VARIABLES heap, stacks, last, pc, loc

vars == <<heap, stacks, last, pc, loc>>

(***************************************************************************)
(* Bounds of the model.                                                    *)
(***************************************************************************)
MaxHeap == 3
MaxStackHeap == 5
MaxKVHeap == 3
MaxFields == 2
MaxJoin == 2

(***************************************************************************)
(* codes.go                                                                *)
(***************************************************************************)
CodeCanceled == 1
CodeUnknown == 2
CodeInvalidArgument == 3
CodeDeadlineExceeded == 4
CodeNotFound == 5
CodeAlreadyExists == 6
CodePermissionDenied == 7
CodeResourceExhausted == 8
CodeFailedPrecondition == 9
CodeAborted == 10
CodeOutOfRange == 11
CodeUnimplemented == 12
CodeInternal == 13
CodeUnavailable == 14
CodeDataLoss == 15
CodeUnauthenticated == 16

DEFAULT_ERROR_CODE_NEW == CodeUnknown
DEFAULT_ERROR_CODE_WRAP == CodeInternal
DEFAULT_UNKNOWN_CODE == CodeUnknown

defaultErrorCodes ==
  <<"canceled", "unknown", "invalid argument", "deadline exceeded",
    "not found", "already exists", "permission denied", "resource exhausted",
    "failed precondition", "aborted", "out of range", "unimplemented",
    "internal", "unavailable", "data loss", "unauthenticated">>

\* Code.String: the label of the code, the label of unknown when it has none.
CodeString(c) ==
  IF c \in DOMAIN defaultErrorCodes
    THEN defaultErrorCodes[c]
    ELSE defaultErrorCodes[DEFAULT_ERROR_CODE_NEW]

(***************************************************************************)
(* The inputs the callers draw from.                                       *)
(***************************************************************************)
\* Messages handed to New and to Wrap and PassThrough (none holds a verb).
NewMsgs == {"root error"}
WrapMsgs == {"additional context", "even more context"}
PassMsgs == {"additional context"}

\* A format with one %v verb is the text before and the text after the verb.
ErrorfFormats == {[pre |-> "", post |-> " root error"]}
WrapfFormats == {[pre |-> "", post |-> ""]}
ErrorfArgs == {"formatted"}

\* Messages of foreign errors.
ExtMsgs == {"external error"}

\* Call sites: InitSite is a frame of package initialisation (runtime.doInit),
\* the others are call sites in functions.
InitSite == 0
NewSites == {InitSite, 1}
WrapSites == {1, 2}
OneSite == {1}
NoFrame == 0 - 1

\* The call sites inside the library: PassThrough calls PassThroughf and With
\* calls Wrap, so the frame wrap records there is the library's own.
PassThroughSite == 3
WithSite == 4

\* Codes handed to WithCode, keys and values handed to WithProperty.
InCodes == {CodeUnknown, CodeInvalidArgument}
OneCode == {CodeInvalidArgument}
Keys == {"key1"}
KeyOrder == <<"key1">>
Vals == {"val1"}
Absent == "<absent>"

\* The nil map: no key has a value.
NilKVs == [k \in Keys |-> Absent]

(***************************************************************************)
(* FieldType, Field, Codes, KVs (eris.go)                                  *)
(***************************************************************************)
UnknownType == 0
CodeType == 1
KVType == 2

Codes(code) == [Type |-> CodeType, Key |-> "", Value |-> code]

KVs(key, value) == [Type |-> KVType, Key |-> key, Value |-> value]

Fields(codes, vals) ==
  {Codes(c) : c \in codes} \cup {KVs(k, v) : k \in Keys, v \in vals}

SeqsUpTo(S, n) == UNION {[1..m -> S] : m \in 0..n}

(***************************************************************************)
(* The error values.                                                       *)
(***************************************************************************)
\* rootError{global, msg, ext, stack, code, kvs}; ext is field next.
rootError(global, msg, ext, stack, code, kvs) ==
  [kind |-> "root", global |-> global, msg |-> msg, next |-> ext,
   stack |-> stack, frame |-> NoFrame, code |-> code, kvs |-> kvs,
   members |-> <<>>]

\* wrapError{msg, err, frame, code, kvs}; err is field next.
wrapError(msg, err, frame, code, kvs) ==
  [kind |-> "wrap", global |-> FALSE, msg |-> msg, next |-> err,
   stack |-> 0, frame |-> frame, code |-> code, kvs |-> kvs,
   members |-> <<>>]

\* A foreign error with a message that wraps err (0: it wraps nothing), as
\* errors.New, fmt.Errorf("%w") and the tests' withLayer build them.
foreignError(msg, err) ==
  [kind |-> "ext", global |-> FALSE, msg |-> msg, next |-> err,
   stack |-> 0, frame |-> NoFrame, code |-> 0, kvs |-> NilKVs,
   members |-> <<>>]

\* The aggregate errors.Join returns: it exposes Unwrap() []error only.
joinError(members) ==
  [kind |-> "join", global |-> FALSE, msg |-> "", next |-> 0,
   stack |-> 0, frame |-> NoFrame, code |-> 0, kvs |-> NilKVs,
   members |-> members]

Ids(h) == 1..Len(h)

IsRoot(h, e) == e \in Ids(h) /\ h[e].kind = "root"
IsWrap(h, e) == e \in Ids(h) /\ h[e].kind = "wrap"
IsNative(h, e) == IsRoot(h, e) \/ IsWrap(h, e)
IsForeign(h, e) == e \in Ids(h) /\ h[e].kind \in {"ext", "join"}

(***************************************************************************)
(* The call-stack recorder.                                                *)
(***************************************************************************)
\* callers(skip): the stack captured at a call site, most recent call first.
callers(site) == <<site>>

\* caller(skip): the frame of the call site.
caller(site) == site

\* stack.insertPC: the frame of the wrap is put at the head of the stack.
insertPC(s, wrapPCs) ==
  IF Len(wrapPCs) = 0 THEN s ELSE <<wrapPCs[1]>> \o s

\* stack.isGlobal: the stack holds a frame of package initialisation.
isGlobal(s) == \E i \in 1..Len(s) : s[i] = InitSite

(***************************************************************************)
(* fmt.Sprintf with one %v verb and a string argument.                     *)
(***************************************************************************)
Sprintf(format, arg) == format.pre \o arg \o format.post

(***************************************************************************)
(* Unwrap and Cause (eris.go)                                              *)
(***************************************************************************)
\* Unwrap as it would be if rootError had no Unwrap method.
UnwrapLinksOnly(h, err) ==
  IF err \notin Ids(h) THEN 0
  ELSE IF h[err].kind = "wrap" THEN h[err].next
  ELSE IF h[err].kind = "ext" THEN h[err].next
  ELSE 0

\* Unwrap: the result of the Unwrap() error method of err, nil without one.
Unwrap(h, err) ==
  IF err \notin Ids(h) THEN 0
  ELSE IF h[err].kind = "wrap" THEN h[err].next
  ELSE IF h[err].kind = "root" THEN h[err].next
  ELSE IF h[err].kind = "ext" THEN h[err].next
  ELSE 0

\* The root of the chain err is the head of: the node its links end at.
RECURSIVE ChainRoot(_, _)
ChainRoot(h, err) ==
  IF err \in Ids(h) /\ h[err].kind = "wrap" THEN ChainRoot(h, h[err].next)
  ELSE err

\* Cause as it would be if it stopped at the root of the chain.
CauseStopsAtRoot(h, err) == ChainRoot(h, err)

RECURSIVE Cause(_, _)
Cause(h, err) ==
  LET uerr == Unwrap(h, err)
  IN IF uerr = 0 THEN err ELSE Cause(h, uerr)

(***************************************************************************)
(* wrap (eris.go): the result is the new heap, the new stacks and the      *)
(* error returned.                                                         *)
(***************************************************************************)
Result(h, st, ret) == [heap |-> h, stacks |-> st, ret |-> ret]

\* The test "e.global" of wrap, were it never to hold.
globalIgnored(e) == FALSE

\* The test "e.global" of wrap.
global(e) == e.global

\* The root that takes the place of a global root, were it to keep the
\* stack of the global root.
globalCopySharingStack(e, stack) ==
  rootError(e.global, e.msg, 0, e.stack, e.code, NilKVs)

\* The root that takes the place of a global root, were it to keep the
\* properties and the foreign error of the global root too.
globalCopyKeepingAll(e, stack) ==
  rootError(e.global, e.msg, e.next, stack, e.code, e.kvs)

\* The root that takes the place of a global root e: the flag, the message
\* and the code of e, the stack captured by this wrap.
globalCopy(e, stack) ==
  rootError(e.global, e.msg, 0, stack, e.code, NilKVs)

\* wrap as it would be if it looked for a root below a foreign error too
\* and put the frame of the wrap into the Stack of that root.
wrapThroughForeign(h, st, err, msg, code, site) ==
  IF err = 0 THEN Result(h, st, 0)
  ELSE
    LET stack == callers(site)
        frame == caller(site)
        e == h[err]
        root == Cause(h, err)
        st1 == IF IsRoot(h, root)
                 THEN [st EXCEPT ![h[root].stack] = insertPC(@, stack)]
                 ELSE st
    IN IF e.kind = "root" THEN
         IF global(e) THEN
           LET copy == globalCopy(e, Len(st) + 1)
               h1 == Append(h, copy)
           IN Result(Append(h1, wrapError(msg, Len(h1), frame, code, NilKVs)),
                     Append(st, stack), Len(h1) + 1)
         ELSE
           Result(Append(h, wrapError(msg, err, frame, code, NilKVs)),
                  [st EXCEPT ![e.stack] = insertPC(@, stack)], Len(h) + 1)
       ELSE IF e.kind = "wrap" THEN
         Result(Append(h, wrapError(msg, err, frame, code, NilKVs)),
                st1, Len(h) + 1)
       ELSE
         Result(Append(h, rootError(FALSE, msg, err, Len(st) + 1, code, NilKVs)),
                Append(st1, stack), Len(h) + 1)

wrap(h, st, err, msg, code, site) ==
  IF err = 0 THEN Result(h, st, 0)
  ELSE
    LET stack == callers(site)
        frame == caller(site)
        e == h[err]
    IN IF e.kind = "root" THEN
         IF global(e) THEN
           LET copy == globalCopy(e, Len(st) + 1)
               h1 == Append(h, copy)
           IN Result(Append(h1, wrapError(msg, Len(h1), frame, code, NilKVs)),
                     Append(st, stack), Len(h1) + 1)
         ELSE
           Result(Append(h, wrapError(msg, err, frame, code, NilKVs)),
                  [st EXCEPT ![e.stack] = insertPC(@, stack)], Len(h) + 1)
       ELSE IF e.kind = "wrap" THEN
         LET root == Cause(h, err)
             st1 == IF IsRoot(h, root)
                      THEN [st EXCEPT ![h[root].stack] = insertPC(@, stack)]
                      ELSE st
         IN Result(Append(h, wrapError(msg, err, frame, code, NilKVs)),
                   st1, Len(h) + 1)
       ELSE
         Result(Append(h, rootError(FALSE, msg, err, Len(st) + 1, code, NilKVs)),
                Append(st, stack), Len(h) + 1)

\* New(msg) and Errorf(format, args...) called at a call site.
New(h, st, msg, site) ==
  LET stack == callers(site)
  IN Result(Append(h, rootError(isGlobal(stack), msg, 0, Len(st) + 1,
                                DEFAULT_ERROR_CODE_NEW, NilKVs)),
            Append(st, stack), Len(h) + 1)

Errorf(h, st, format, arg, site) ==
  LET stack == callers(site)
  IN Result(Append(h, rootError(isGlobal(stack), Sprintf(format, arg), 0,
                                Len(st) + 1, DEFAULT_ERROR_CODE_NEW, NilKVs)),
            Append(st, stack), Len(h) + 1)

\* Wrap(err, msg) and Wrapf(err, format, args...) called at a call site;
\* fmt.Sprint(msg) is msg.
WrapWithNewCode(h, st, err, msg, site) ==
  wrap(h, st, err, msg, DEFAULT_ERROR_CODE_NEW, site)

Wrap(h, st, err, msg, site) ==
  wrap(h, st, err, msg, DEFAULT_ERROR_CODE_WRAP, site)

Wrapf(h, st, err, format, arg, site) ==
  wrap(h, st, err, Sprintf(format, arg), DEFAULT_ERROR_CODE_WRAP, site)

\* The number of values wrap allocates for err.
Allocs(h, err) ==
  IF err = 0 THEN 0
  ELSE IF h[err].kind = "root" /\ h[err].global THEN 2
  ELSE 1

(***************************************************************************)
(* GetCode, GetKVs (eris.go)                                               *)
(***************************************************************************)
\* GetCode as it would be if it reported the code of the node the links of
\* err end at.
GetCodeOfRoot(h, err) ==
  IF IsNative(h, ChainRoot(h, err)) THEN h[ChainRoot(h, err)].code
  ELSE DEFAULT_UNKNOWN_CODE

GetCode(h, err) ==
  IF IsNative(h, err) THEN h[err].code ELSE DEFAULT_UNKNOWN_CODE

GetKVs(h, err) ==
  IF IsNative(h, err) THEN h[err].kvs ELSE NilKVs

(***************************************************************************)
(* GetProperty, GetPropertyP (eris.go)                                     *)
(*                                                                         *)
(* The type parameter T is string or int, and so are the values the        *)
(* callers store; an int is written as a text.  A result is                *)
(* the value and the flag of GetProperty; for GetPropertyP the flag tells  *)
(* that the pointer is not nil and the value is what it points to.         *)
(***************************************************************************)
StringType == "string"
IntType == "int"
ValueTypes == {StringType, IntType}

\* The values of type int that the callers store, written as texts.
IntVals == {"42"}

\* The dynamic type of a stored value.
ValueType(v) == IF v \in IntVals THEN IntType ELSE StringType

\* var empty T
Zero(typ) == IF typ = StringType THEN "" ELSE "0"

Property(val, ok) == [val |-> val, ok |-> ok]

\* GetProperty as it would be if it returned the stored value of any type.
GetPropertyUntyped(h, err, key, typ) ==
  IF GetKVs(h, err)[key] = Absent THEN Property(Zero(typ), FALSE)
  ELSE Property(GetKVs(h, err)[key], TRUE)

GetProperty(h, err, key, typ) ==
  IF GetKVs(h, err)[key] = Absent THEN Property(Zero(typ), FALSE)
  ELSE IF ValueType(GetKVs(h, err)[key]) # typ THEN Property(Zero(typ), FALSE)
  ELSE Property(GetKVs(h, err)[key], TRUE)

GetPropertyP(h, err, key, typ) ==
  IF GetKVs(h, err)[key] = Absent THEN Property(Zero(typ), FALSE)
  ELSE IF ValueType(GetKVs(h, err)[key]) # typ THEN Property(Zero(typ), FALSE)
  ELSE Property(GetKVs(h, err)[key], TRUE)

(***************************************************************************)
(* With, WithCode, WithProperty, WithField (eris.go)                       *)
(***************************************************************************)
\* rootError.WithField and wrapError.WithField on the node e.
WithField(e, field) ==
  IF field.Type = CodeType THEN [e EXCEPT !.code = field.Value]
  ELSE IF field.Type = KVType THEN [e EXCEPT !.kvs[field.Key] = field.Value]
  ELSE e

RECURSIVE WithFields(_, _)
WithFields(e, fields) ==
  IF fields = <<>> THEN e
  ELSE WithFields(WithField(e, Head(fields)), Tail(fields))

\* With as it would be with value receivers: the fields are applied to a
\* copy of the node.
WithOnCopy(h, st, err, fields) ==
  IF err = 0 THEN Result(h, st, 0)
  ELSE IF IsNative(h, err) THEN
    Result(Append(h, WithFields(h[err], fields)), st, Len(h) + 1)
  ELSE
    LET r == wrap(h, st, err, "with property", DEFAULT_ERROR_CODE_WRAP, WithSite)
    IN Result([r.heap EXCEPT ![r.ret] = WithFields(@, fields)], r.stacks, r.ret)

\* With as it would be if it applied the fields to a copy of a global root
\* and left the global root alone.
WithCopyingGlobal(h, st, err, fields) ==
  IF err = 0 THEN Result(h, st, 0)
  ELSE IF IsRoot(h, err) /\ h[err].global THEN
    Result(Append(h, WithFields(h[err], fields)), st, Len(h) + 1)
  ELSE IF IsNative(h, err) THEN
    Result([h EXCEPT ![err] = WithFields(@, fields)], st, err)
  ELSE
    LET r == Wrap(h, st, err, "with property", WithSite)
    IN Result([r.heap EXCEPT ![r.ret] = WithFields(@, fields)], r.stacks, r.ret)

With(h, st, err, fields) ==
  IF err = 0 THEN Result(h, st, 0)
  ELSE IF IsNative(h, err) THEN
    Result([h EXCEPT ![err] = WithFields(@, fields)], st, err)
  ELSE
    LET r == Wrap(h, st, err, "with property", WithSite)
    IN Result([r.heap EXCEPT ![r.ret] = WithFields(@, fields)], r.stacks, r.ret)

WithCode(h, st, err, code) == With(h, st, err, <<Codes(code)>>)

WithProperty(h, st, err, key, value) == With(h, st, err, <<KVs(key, value)>>)

\* With allocates a root when err is foreign.
WithAllocs(h, err) == IF IsForeign(h, err) THEN 1 ELSE 0

(***************************************************************************)
(* PassThrough, PassThroughf (eris.go)                                     *)
(***************************************************************************)
\* The loop "for k, v := range kvs" over the keys from position i on.
RECURSIVE CopyKVs(_, _, _, _, _)
CopyKVs(h, st, newErr, kvs, i) ==
  IF i > Len(KeyOrder) THEN Result(h, st, newErr)
  ELSE IF kvs[KeyOrder[i]] = Absent THEN CopyKVs(h, st, newErr, kvs, i + 1)
  ELSE LET r == WithProperty(h, st, newErr, KeyOrder[i], kvs[KeyOrder[i]])
       IN CopyKVs(r.heap, r.stacks, r.ret, kvs, i + 1)

\* PassThroughf as it would be without the test "code != CodeUnknown".
PassThroughfAnyCode(h, st, err, msg, site) ==
  IF err = 0 THEN Result(h, st, 0)
  ELSE
    LET r == wrap(h, st, err, msg, DEFAULT_ERROR_CODE_WRAP, site)
        r1 == [heap |-> [r.heap EXCEPT ![r.ret].code = GetCode(r.heap, err)],
               stacks |-> r.stacks, ret |-> r.ret]
    IN [r1 EXCEPT !.heap[r.ret].kvs = GetKVs(r.heap, err)]

PassThroughf(h, st, err, msg, site) ==
  IF err = 0 THEN Result(h, st, 0)
  ELSE
    LET r == wrap(h, st, err, msg, DEFAULT_ERROR_CODE_WRAP, site)
        code == GetCode(r.heap, err)
        r1 == IF code # CodeUnknown
                THEN WithCode(r.heap, r.stacks, r.ret, code)
                ELSE r
    IN CopyKVs(r1.heap, r1.stacks, r1.ret, GetKVs(r1.heap, err), 1)

PassThrough(h, st, err, msg) == PassThroughf(h, st, err, msg, PassThroughSite)

(***************************************************************************)
(* Join (eris.go) over errors.Join                                         *)
(***************************************************************************)
\* errors.Join keeps the non-nil errors, in order.
NonNil(errs) == SelectSeq(errs, LAMBDA e : e # 0)

\* Join as it would be without the test "internal == nil".
JoinNoNilCheck(h, st, errs, site) ==
  LET h1 == Append(h, joinError(NonNil(errs)))
  IN wrap(h1, st, Len(h1), "join error", DEFAULT_ERROR_CODE_NEW, site)

Join(h, st, errs, site) ==
  IF NonNil(errs) = <<>> THEN Result(h, st, 0)
  ELSE LET h1 == Append(h, joinError(NonNil(errs)))
       IN wrap(h1, st, Len(h1), "join error", DEFAULT_ERROR_CODE_NEW, site)

JoinAllocs(errs) == IF NonNil(errs) = <<>> THEN 0 ELSE 2

(***************************************************************************)
(* Texts. A string is kept as its non-empty sequence of lines, so that     *)
(* "\n" is the break between two lines: "a\nb" is <<"a", "b">>.            *)
(***************************************************************************)
T(s) == <<s>>

Newline == <<"", "">>

Cat(a, b) == SubSeq(a, 1, Len(a) - 1) \o <<a[Len(a)] \o b[1]>> \o Tail(b)

RECURSIVE CatAll(_)
CatAll(ts) == IF ts = <<>> THEN T("") ELSE Cat(Head(ts), CatAll(Tail(ts)))

\* strings.Join(ts, sep)
RECURSIVE JoinTexts(_, _)
JoinTexts(ts, sep) ==
  IF ts = <<>> THEN T("")
  ELSE IF Len(ts) = 1 THEN ts[1]
  ELSE Cat(ts[1], Cat(sep, JoinTexts(Tail(ts), sep)))

\* strings.Contains(t, "\n")
ContainsNewline(t) == Len(t) > 1

\* The string itself, the lines joined by "\n".
RECURSIVE Flat(_)
Flat(t) == IF Len(t) = 1 THEN t[1] ELSE t[1] \o "\n" \o Flat(Tail(t))

Digits == <<"0", "1", "2", "3", "4", "5", "6", "7", "8", "9">>

\* fmt.Sprintf("%d", i) for a small i.
Itoa(i) == Digits[i + 1]

(***************************************************************************)
(* format.go: FormatOptions, StringFormat, Unpack, ToString                *)
(***************************************************************************)
FormatOptions(invertOutput, withTrace, invertTrace, withExternal) ==
  [InvertOutput |-> invertOutput, WithTrace |-> withTrace,
   InvertTrace |-> invertTrace, WithExternal |-> withExternal]

NewDefaultStringFormat(options) ==
  IF options.WithTrace
    THEN [Options |-> options, MsgStackSep |-> Newline, PreStackSep |-> T("\t"),
          StackElemSep |-> T(":"), ErrorSep |-> Newline]
    ELSE [Options |-> options, MsgStackSep |-> T(""), PreStackSep |-> T(""),
          StackElemSep |-> T(""), ErrorSep |-> T(": ")]

\* The zero UnpackedError: no foreign error, the zero ErrRoot, no link.
ZeroUnpacked ==
  [ErrExternal |-> 0,
   ErrRoot |-> [Msg |-> "", Stack |-> <<>>, code |-> 0, kvs |-> NilKVs],
   ErrChain |-> <<>>]

\* The loop of Unpack, were it to append each link it meets.
RECURSIVE UnpackFromAppending(_, _, _, _)
UnpackFromAppending(h, st, err, upErr) ==
  IF err = 0 THEN upErr
  ELSE IF h[err].kind = "root" THEN
    UnpackFromAppending(h, st, Unwrap(h, err),
      [upErr EXCEPT !.ErrRoot = [Msg |-> h[err].msg, Stack |-> st[h[err].stack],
                                 code |-> h[err].code, kvs |-> h[err].kvs]])
  ELSE IF h[err].kind = "wrap" THEN
    UnpackFromAppending(h, st, Unwrap(h, err),
      [upErr EXCEPT !.ErrChain =
         @ \o <<[Msg |-> h[err].msg, Frame |-> h[err].frame,
                 code |-> h[err].code, kvs |-> h[err].kvs]>>])
  ELSE [upErr EXCEPT !.ErrExternal = err]

RECURSIVE UnpackFrom(_, _, _, _)
UnpackFrom(h, st, err, upErr) ==
  IF err = 0 THEN upErr
  ELSE IF h[err].kind = "root" THEN
    UnpackFrom(h, st, Unwrap(h, err),
      [upErr EXCEPT !.ErrRoot = [Msg |-> h[err].msg, Stack |-> st[h[err].stack],
                                 code |-> h[err].code, kvs |-> h[err].kvs]])
  ELSE IF h[err].kind = "wrap" THEN
    UnpackFrom(h, st, Unwrap(h, err),
      [upErr EXCEPT !.ErrChain =
         <<[Msg |-> h[err].msg, Frame |-> h[err].frame,
            code |-> h[err].code, kvs |-> h[err].kvs]>> \o @])
  ELSE [upErr EXCEPT !.ErrExternal = err]

Unpack(h, st, err) == UnpackFrom(h, st, err, ZeroUnpacked)

\* len(kvs)
LenKVs(kvs) == Cardinality({k \in Keys : kvs[k] # Absent})

\* fmt.Sprintf("%v", kvs): map[k:v k:v], the keys sorted.
RECURSIVE MapEntries(_, _)
MapEntries(kvs, i) ==
  IF i > Len(KeyOrder) THEN <<>>
  ELSE IF kvs[KeyOrder[i]] = Absent THEN MapEntries(kvs, i + 1)
  ELSE <<T(KeyOrder[i] \o ":" \o kvs[KeyOrder[i]])>> \o MapEntries(kvs, i + 1)

MapString(kvs) == CatAll(<<T("map["), JoinTexts(MapEntries(kvs, 1), T(" ")), T("]")>>)

\* The resolved frame of a call site: function, file, line.
FrameName ==
  <<"runtime.doInit", "main.first", "main.second", "eris.PassThrough", "eris.With">>

FrameFile == <<"proc.go", "main.go", "main.go", "eris.go", "eris.go">>

FrameLine == <<"1", "10", "20", "135", "326">>

\* StackFrame.format(sep)
FrameFormat(f, sep) ==
  CatAll(<<T(FrameName[f + 1]), sep, T(FrameFile[f + 1]), sep, T(FrameLine[f + 1])>>)

\* Stack.format(sep, invert): one text per frame.
StackFormat(stack, sep, invert) ==
  [i \in 1..Len(stack) |->
     FrameFormat(stack[IF invert THEN i ELSE Len(stack) + 1 - i], sep)]

RECURSIVE StackLines(_, _, _)
StackLines(stackArr, format, i) ==
  IF i > Len(stackArr) THEN T("")
  ELSE CatAll(<<format.PreStackSep, stackArr[i],
                IF i < Len(stackArr) THEN format.ErrorSep ELSE T(""),
                StackLines(stackArr, format, i + 1)>>)

KVsText(kvs) ==
  IF LenKVs(kvs) > 0 THEN CatAll(<<T(" KVs("), MapString(kvs), T(")")>>) ELSE T("")

\* ErrRoot.formatStr
RootFormatStr(root, format) ==
  IF KVsText(root.kvs) = T("") /\ root.code = DEFAULT_ERROR_CODE_NEW /\ root.Msg = ""
    THEN T("")
    ELSE CatAll(<<T("code(" \o CodeString(root.code) \o ")"), KVsText(root.kvs),
                  T(" " \o root.Msg), format.MsgStackSep,
                  IF format.Options.WithTrace
                    THEN StackLines(StackFormat(root.Stack, format.StackElemSep,
                                                format.Options.InvertTrace),
                                    format, 1)
                    ELSE T("")>>)

\* ErrLink.formatStr
LinkFormatStr(eLink, format) ==
  CatAll(<<T("code(" \o CodeString(eLink.code) \o ")"), KVsText(eLink.kvs),
           T(" " \o eLink.Msg), format.MsgStackSep,
           IF format.Options.WithTrace
             THEN Cat(format.PreStackSep,
                      FrameFormat(eLink.Frame, format.StackElemSep))
             ELSE T("")>>)

RECURSIVE ToCustomString(_, _, _, _)
RECURSIVE ErrorText(_, _, _)

ToString(h, st, err, withTrace) ==
  ToCustomString(h, st, err,
    NewDefaultStringFormat(FormatOptions(FALSE, withTrace, FALSE, TRUE)))

\* err.Error(): a native error prints itself without trace, a foreign error
\* that wraps another prints "msg: " and the wrapped error's text, and a
\* join aggregate prints its members' texts, one per line.
ErrorText(h, st, err) ==
  IF IsNative(h, err) THEN ToString(h, st, err, FALSE)
  ELSE IF h[err].kind = "ext" THEN
    IF h[err].next = 0 THEN T(h[err].msg)
    ELSE Cat(T(h[err].msg \o ": "), ErrorText(h, st, h[err].next))
  ELSE JoinTexts([i \in 1..Len(h[err].members) |->
                    ErrorText(h, st, h[err].members[i])], Newline)

\* fmt.Sprintf("%v", err) and, with trace, fmt.Sprintf("%+v", err).
SprintV(h, st, err, withTrace) ==
  IF IsNative(h, err) THEN ToString(h, st, err, withTrace)
  ELSE ErrorText(h, st, err)

\* Every line of the text after a tab.
Indent(t) == [i \in 1..Len(t) |-> "\t" \o t[i]]

formatExternalStr(h, st, err, withTrace) ==
  IF h[err].kind # "join" THEN SprintV(h, st, err, withTrace)
  ELSE JoinTexts([i \in 1..Len(h[err].members) |->
                    Cat(T(Itoa(i - 1) \o ">"),
                        Indent(SprintV(h, st, h[err].members[i], withTrace)))],
                 Newline)

\* The loop of the inverted output, were it to run over the links from
\* position i down to 1.
RECURSIVE ChainInvertedDescending(_, _, _)
ChainInvertedDescending(chain, format, i) ==
  IF i > Len(chain) THEN T("")
  ELSE CatAll(<<ChainInvertedDescending(chain, format, i + 1),
                format.ErrorSep, LinkFormatStr(chain[i], format)>>)

\* The loop of the inverted output over the links from position i on.
RECURSIVE ChainInverted(_, _, _)
ChainInverted(chain, format, i) ==
  IF i > Len(chain) THEN T("")
  ELSE CatAll(<<format.ErrorSep, LinkFormatStr(chain[i], format),
                ChainInverted(chain, format, i + 1)>>)

\* The loop of the default output, were it to run over the links from
\* position 1 up to i.
RECURSIVE ChainDefaultAscending(_, _, _)
ChainDefaultAscending(chain, format, i) ==
  IF i < 1 THEN T("")
  ELSE CatAll(<<ChainDefaultAscending(chain, format, i - 1),
                LinkFormatStr(chain[i], format), format.ErrorSep>>)

\* The loop of the default output over the links from position i down.
RECURSIVE ChainDefault(_, _, _)
ChainDefault(chain, format, i) ==
  IF i < 1 THEN T("")
  ELSE CatAll(<<LinkFormatStr(chain[i], format), format.ErrorSep,
                ChainDefault(chain, format, i - 1)>>)

ToCustomString(h, st, err, format) ==
  LET upErr == Unpack(h, st, err)
      withExt == format.Options.WithExternal /\ upErr.ErrExternal # 0
      externalStr == formatExternalStr(h, st, upErr.ErrExternal,
                                       format.Options.WithTrace)
      rootSep == \/ format.Options.WithTrace /\ Len(upErr.ErrRoot.Stack) > 0
                 \/ upErr.ErrRoot.Msg # ""
      rootErrStr == RootFormatStr(upErr.ErrRoot, format)
  IN IF format.Options.InvertOutput THEN
       LET errSep == withExt /\ ~ContainsNewline(externalStr) /\ rootSep
           extPart == IF ~withExt THEN T("")
                      ELSE IF ContainsNewline(externalStr)
                        THEN Cat(externalStr, Newline)
                      ELSE IF rootSep THEN Cat(externalStr, format.ErrorSep)
                      ELSE externalStr
           space == IF ~errSep /\ rootErrStr # T("") /\ Len(upErr.ErrChain) = 0
                      THEN T(" ") ELSE T("")
       IN CatAll(<<extPart, space, rootErrStr,
                   ChainInverted(upErr.ErrChain, format, 1)>>)
     ELSE
       CatAll(<<ChainDefault(upErr.ErrChain, format, Len(upErr.ErrChain)),
                rootErrStr,
                IF ~withExt THEN T("")
                ELSE IF ContainsNewline(externalStr)
                  THEN Cat(Newline, externalStr)
                ELSE IF rootSep THEN Cat(format.ErrorSep, externalStr)
                ELSE externalStr>>)

(***************************************************************************)
(* format.go: JSONFormat, ToJSON, ToCustomJSON                             *)
(*                                                                         *)
(* A map[string]any is the set of its keys and one field for the value of  *)
(* every key it may have; the field of a key that is not in the map holds  *)
(* the zero value.  The stack of a link, one string in the code, is a      *)
(* sequence of one string.                                                 *)
(***************************************************************************)
NewDefaultJSONFormat(options) == [Options |-> options, StackElemSep |-> T(":")]

\* ErrRoot.HasKVs, ErrLink.HasKVs
HasKVs(e) == LenKVs(e.kvs) > 0

NodeMap(keys, code, message, kvs, stack) ==
  [keys |-> keys, code |-> code, message |-> message, KVs |-> kvs,
   stack |-> stack]

NodeKeys(e, format) ==
  {"code", "message"}
  \cup (IF HasKVs(e) THEN {"KVs"} ELSE {})
  \cup (IF format.Options.WithTrace THEN {"stack"} ELSE {})

\* ErrRoot.formatJSON
RootFormatJSON(root, format) ==
  NodeMap(NodeKeys(root, format), CodeString(root.code), root.Msg,
          IF HasKVs(root) THEN root.kvs ELSE NilKVs,
          IF format.Options.WithTrace
            THEN LET stackArr == StackFormat(root.Stack, format.StackElemSep,
                                             format.Options.InvertTrace)
                 IN [i \in 1..Len(stackArr) |-> Flat(stackArr[i])]
            ELSE <<>>)

\* ErrLink.formatJSON
LinkFormatJSON(eLink, format) ==
  NodeMap(NodeKeys(eLink, format), CodeString(eLink.code), eLink.Msg,
          IF HasKVs(eLink) THEN eLink.kvs ELSE NilKVs,
          IF format.Options.WithTrace
            THEN <<Flat(FrameFormat(eLink.Frame, format.StackElemSep))>>
            ELSE <<>>)

\* The loop over the links: each map is appended when the output is
\* inverted and prepended when it is not.
RECURSIVE WrapArr(_, _, _)
WrapArr(chain, format, i) ==
  IF i < 1 THEN <<>>
  ELSE IF format.Options.InvertOutput
    THEN Append(WrapArr(chain, format, i - 1), LinkFormatJSON(chain[i], format))
    ELSE <<LinkFormatJSON(chain[i], format)>> \o WrapArr(chain, format, i - 1)

Document(keys, external, externals, root, wrapArr) ==
  [keys |-> keys, external |-> external, externals |-> externals,
   root |-> root, wrap |-> wrapArr]

\* ToCustomJSON as it would be if the key root were always set.
RECURSIVE ToCustomJSONWithRoot(_, _, _, _)
ToCustomJSONWithRoot(h, st, err, format) ==
  LET upErr == Unpack(h, st, err)
      withExt == format.Options.WithExternal /\ upErr.ErrExternal # 0
      join == withExt /\ h[upErr.ErrExternal].kind = "join"
  IN Document(
       (IF withExt THEN IF join THEN {"externals"} ELSE {"external"} ELSE {})
       \cup {"root"}
       \cup (IF Len(upErr.ErrChain) > 0 THEN {"wrap"} ELSE {}),
       IF withExt /\ ~join
         THEN Flat(formatExternalStr(h, st, upErr.ErrExternal,
                                     format.Options.WithTrace))
         ELSE "",
       IF join
         THEN [i \in 1..Len(h[upErr.ErrExternal].members) |->
                 ToCustomJSONWithRoot(h, st, h[upErr.ErrExternal].members[i],
                                      format)]
         ELSE <<>>,
       RootFormatJSON(upErr.ErrRoot, format),
       WrapArr(upErr.ErrChain, format, Len(upErr.ErrChain)))

RECURSIVE ToCustomJSON(_, _, _, _)
ToCustomJSON(h, st, err, format) ==
  LET upErr == Unpack(h, st, err)
      withExt == format.Options.WithExternal /\ upErr.ErrExternal # 0
      join == withExt /\ h[upErr.ErrExternal].kind = "join"
      withRoot == upErr.ErrRoot.Msg # "" \/ Len(upErr.ErrRoot.Stack) > 0
  IN Document(
       (IF withExt THEN IF join THEN {"externals"} ELSE {"external"} ELSE {})
       \cup (IF withRoot THEN {"root"} ELSE {})
       \cup (IF Len(upErr.ErrChain) > 0 THEN {"wrap"} ELSE {}),
       IF withExt /\ ~join
         THEN Flat(formatExternalStr(h, st, upErr.ErrExternal,
                                     format.Options.WithTrace))
         ELSE "",
       IF join
         THEN [i \in 1..Len(h[upErr.ErrExternal].members) |->
                 ToCustomJSON(h, st, h[upErr.ErrExternal].members[i], format)]
         ELSE <<>>,
       IF withRoot THEN RootFormatJSON(upErr.ErrRoot, format)
         ELSE NodeMap({}, "", "", NilKVs, <<>>),
       WrapArr(upErr.ErrChain, format, Len(upErr.ErrChain)))

ToJSON(h, st, err, withTrace) ==
  ToCustomJSON(h, st, err,
    NewDefaultJSONFormat(FormatOptions(FALSE, withTrace, FALSE, TRUE)))

(***************************************************************************)
(* Is, rootError.Is, wrapError.Is (eris.go)                                *)
(***************************************************************************)
\* target.Error()
ErrorString(h, st, target) == Flat(ErrorText(h, st, target))

\* e.ext.(joinError): the foreign error of the root is a join aggregate.
HasJoin(h, e) == h[e].next # 0 /\ h[h[e].next].kind = "join"

\* The message, the code and the properties of e are those of target.
SameFields(h, e, target) ==
  /\ h[e].msg = h[target].msg
  /\ h[e].code = h[target].code
  /\ h[e].kvs = h[target].kvs

\* wrapError.Is as it would be if a link matched links only.
wrapErrorIsLinksOnly(h, st, e, target) ==
  IsWrap(h, target) /\ SameFields(h, e, target)

\* wrapError.Is
wrapErrorIs(h, st, e, target) ==
  IF IsNative(h, target) THEN SameFields(h, e, target)
  ELSE h[e].msg = ErrorString(h, st, target)

\* Is as it would be if the walk ended at the first error with an Is method.
RECURSIVE IsHeadOnly(_, _, _, _)
RECURSIVE IsNilTargetMatches(_, _, _, _)
RECURSIVE Is(_, _, _, _)

\* rootError.Is as it would be without the loop over the members of a join.
rootErrorIsNoJoin(h, st, e, target) ==
  IF IsNative(h, target) THEN SameFields(h, e, target)
  ELSE h[e].msg = ErrorString(h, st, target) /\ h[e].code = DEFAULT_UNKNOWN_CODE

\* rootError.Is
rootErrorIs(h, st, e, target) ==
  IF HasJoin(h, e)
    THEN \E i \in 1..Len(h[h[e].next].members) :
           Is(h, st, h[h[e].next].members[i], target)
  ELSE IF IsNative(h, target) THEN SameFields(h, e, target)
  ELSE h[e].msg = ErrorString(h, st, target) /\ h[e].code = DEFAULT_UNKNOWN_CODE

\* x.Is(target) for an error with a method Is(error) bool.
MethodIs(h, st, err, target) ==
  /\ IsNative(h, err)
  /\ IF IsRoot(h, err) THEN rootErrorIs(h, st, err, target)
     ELSE wrapErrorIs(h, st, err, target)

IsHeadOnly(h, st, err, target) ==
  IF target = 0 THEN err = target
  ELSE IF err = target THEN TRUE
  ELSE IF IsNative(h, err) THEN MethodIs(h, st, err, target)
  ELSE IF Unwrap(h, err) = 0 THEN FALSE
  ELSE IsHeadOnly(h, st, Unwrap(h, err), target)

\* Is as it would be if a nil target matched every error.
IsNilTargetMatches(h, st, err, target) ==
  IF target = 0 THEN TRUE
  ELSE IF err = target THEN TRUE
  ELSE IF MethodIs(h, st, err, target) THEN TRUE
  ELSE IF Unwrap(h, err) = 0 THEN FALSE
  ELSE IsNilTargetMatches(h, st, Unwrap(h, err), target)

\* Is: every error value of the model is a pointer, so target is comparable.
Is(h, st, err, target) ==
  IF target = 0 THEN err = target
  ELSE IF err = target THEN TRUE
  ELSE IF MethodIs(h, st, err, target) THEN TRUE
  ELSE IF Unwrap(h, err) = 0 THEN FALSE
  ELSE Is(h, st, Unwrap(h, err), target)

(***************************************************************************)
(* StackFrames (eris.go)                                                   *)
(***************************************************************************)
\* StackFrames as it would be if a link returned the stack of its root.
StackFramesOfRoot(h, st, err) ==
  IF IsNative(h, err) /\ IsRoot(h, ChainRoot(h, err))
    THEN st[h[ChainRoot(h, err)].stack]
    ELSE <<>>

StackFrames(h, st, err) ==
  IF IsRoot(h, err) THEN st[h[err].stack]
  ELSE IF IsWrap(h, err) THEN <<h[err].frame>>
  ELSE <<>>

(***************************************************************************)
(* As (eris.go)                                                            *)
(*                                                                         *)
(* The second argument of As is nil, a value that is no pointer, a nil     *)
(* pointer, or a pointer to a variable (the slot) of some type that holds  *)
(* a value.  The types are the interface error, the type of the foreign    *)
(* errors and a type that is no interface and no error.  The result of As  *)
(* is its answer and the value the slot holds afterwards.                  *)
(***************************************************************************)
ErrorType == "error"
ForeignType == "ext"
OtherType == "int"

AsTarget(kind, type, val) == [kind |-> kind, type |-> type, val |-> val]

\* reflect.TypeOf(err): the two native types, and the types of the foreign
\* errors (that of a join aggregate is another one).
TypeOf(h, err) == h[err].kind

IsInterface(type) == type = ErrorType
ImplementsError(type) == type \in {ErrorType, ForeignType}
AssignableTo(type, slot) == slot = ErrorType \/ type = slot

AsResult(ok, val) == [ok |-> ok, val |-> val]

\* wrapError.As: the slot is set to the value it holds.
wrapErrorAs(h, e, type, val) ==
  IF val # 0 /\ IsWrap(h, val) /\ h[e].msg = h[val].msg
    THEN AsResult(TRUE, val)
    ELSE AsResult(FALSE, val)

RECURSIVE AsWalk(_, _, _, _)
RECURSIVE AsMembers(_, _, _, _, _)

\* rootError.As: the members of a join in their order, else the slot is
\* set to the value it holds.
rootErrorAs(h, e, type, val) ==
  IF HasJoin(h, e) THEN AsMembers(h, h[h[e].next].members, 1, type, val)
  ELSE IF val # 0 /\ IsRoot(h, val) /\ h[e].msg = h[val].msg
    THEN AsResult(TRUE, val)
  ELSE AsResult(FALSE, val)

\* x.As(target) for an error with a method As(any) bool.
MethodAs(h, err, type, val) ==
  IF IsRoot(h, err) THEN rootErrorAs(h, err, type, val)
  ELSE IF IsWrap(h, err) THEN wrapErrorAs(h, err, type, val)
  ELSE AsResult(FALSE, val)

\* The loop "for _, err := range joinErr.Unwrap()" from member i on; the
\* members are not nil and the target has passed the checks of As.
AsMembers(h, members, i, type, val) ==
  IF i > Len(members) THEN AsResult(FALSE, val)
  ELSE IF AsWalk(h, members[i], type, val).ok
    THEN AsWalk(h, members[i], type, val)
  ELSE AsMembers(h, members, i + 1, type, val)

\* The loop of As.
AsWalk(h, err, type, val) ==
  IF ~IsNative(h, err) /\ AssignableTo(TypeOf(h, err), type)
    THEN AsResult(TRUE, err)
  ELSE IF MethodAs(h, err, type, val).ok THEN MethodAs(h, err, type, val)
  ELSE IF Unwrap(h, err) = 0 THEN AsResult(FALSE, val)
  ELSE AsWalk(h, Unwrap(h, err), type, val)

As(h, err, target) ==
  IF target.kind = "nil" \/ err = 0 THEN AsResult(FALSE, target.val)
  ELSE IF target.kind # "ptr" THEN AsResult(FALSE, target.val)
  ELSE IF ~IsInterface(target.type) /\ ~ImplementsError(target.type)
    THEN AsResult(FALSE, target.val)
  ELSE AsWalk(h, err, target.type, target.val)

(***************************************************************************)
(* The record of the last call: its name, arguments and result.            *)
(***************************************************************************)
Call(op, err, msg, site, fields, errs, flag, ret, str) ==
  [op |-> op, err |-> err, msg |-> msg, site |-> site, fields |-> fields,
   errs |-> errs, flag |-> flag, ret |-> ret, str |-> str]

NoCall == Call("init", 0, "", NoFrame, <<>>, <<>>, FALSE, 0, "")

Args(h) == Ids(h) \cup {0}

Init ==
  /\ heap = <<>>
  /\ stacks = <<>>
  /\ last = NoCall
  /\ pc = <<>>
  /\ loc = <<>>

\* The state after a call that returned r.
Returned(op, err, msg, site, fields, errs, r) ==
  /\ heap' = r.heap
  /\ stacks' = r.stacks
  /\ last' = Call(op, err, msg, site, fields, errs, FALSE, r.ret, "")
  /\ UNCHANGED <<pc, loc>>

\* The state after a call that changes nothing and returned ret or str.
Answered(op, err, flag, ret, str) ==
  /\ last' = Call(op, err, "", NoFrame, <<>>, <<>>, flag, ret, str)
  /\ UNCHANGED <<heap, stacks, pc, loc>>

NewCall(max, msgs, sites) ==
  \E msg \in msgs, site \in sites :
    /\ Len(heap) < max
    /\ Returned("New", 0, msg, site, <<>>, <<>>, New(heap, stacks, msg, site))

ErrorfCall(max, sites) ==
  \E format \in ErrorfFormats, arg \in ErrorfArgs, site \in sites :
    /\ Len(heap) < max
    /\ Returned("Errorf", 0, Sprintf(format, arg), site, <<>>, <<>>,
         Errorf(heap, stacks, format, arg, site))

\* A caller builds a foreign error, over nothing or over an existing error.
ExternalCall(max) ==
  \E msg \in ExtMsgs, err \in Args(heap) :
    /\ Len(heap) < max
    /\ Returned("External", err, msg, NoFrame, <<>>, <<>>,
         Result(Append(heap, foreignError(msg, err)), stacks, Len(heap) + 1))

WrapCall(max, msgs, sites) ==
  \E err \in Args(heap), msg \in msgs, site \in sites :
    /\ Len(heap) + Allocs(heap, err) <= max
    /\ Returned("Wrap", err, msg, site, <<>>, <<>>,
         Wrap(heap, stacks, err, msg, site))

WrapfCall(max, msgs, sites) ==
  \E err \in Args(heap), format \in WrapfFormats, arg \in msgs, site \in sites :
    /\ Len(heap) + Allocs(heap, err) <= max
    /\ Returned("Wrapf", err, Sprintf(format, arg), site, <<>>, <<>>,
         Wrapf(heap, stacks, err, format, arg, site))

\* PassThrough(err, msg); the message holds no verb, so Sprintf keeps it.
PassThroughCall(max, msgs) ==
  \E err \in Args(heap), msg \in msgs :
    /\ Len(heap) + Allocs(heap, err) <= max
    /\ Returned("PassThrough", err, msg, PassThroughSite, <<>>, <<>>,
         PassThrough(heap, stacks, err, msg))

PassThroughfCall(max, msgs, sites) ==
  \E err \in Args(heap), format \in WrapfFormats, arg \in msgs, site \in sites :
    /\ Len(heap) + Allocs(heap, err) <= max
    /\ Returned("PassThroughf", err, Sprintf(format, arg), site, <<>>, <<>>,
         PassThroughf(heap, stacks, err, Sprintf(format, arg), site))

JoinCall(max, sites) ==
  \E errs \in SeqsUpTo(Args(heap), MaxJoin), site \in sites :
    /\ Len(heap) + JoinAllocs(errs) <= max
    /\ Returned("Join", 0, "", site, <<>>, errs, Join(heap, stacks, errs, site))

WithCall(max, fieldset) ==
  \E err \in Args(heap), fields \in SeqsUpTo(fieldset, MaxFields) :
    /\ Len(heap) + WithAllocs(heap, err) <= max
    /\ Returned("With", err, "", NoFrame, fields, <<>>,
         With(heap, stacks, err, fields))

WithCodeCall(max, codes) ==
  \E err \in Args(heap), code \in codes :
    /\ Len(heap) + WithAllocs(heap, err) <= max
    /\ Returned("WithCode", err, "", NoFrame, <<Codes(code)>>, <<>>,
         WithCode(heap, stacks, err, code))

WithPropertyCall(max, vals) ==
  \E err \in Args(heap), key \in Keys, value \in vals :
    /\ Len(heap) + WithAllocs(heap, err) <= max
    /\ Returned("WithProperty", err, "", NoFrame, <<KVs(key, value)>>, <<>>,
         WithProperty(heap, stacks, err, key, value))

UnwrapCall ==
  \E err \in Args(heap) :
    Answered("Unwrap", err, FALSE, Unwrap(heap, err), "")

ToStringCall ==
  \E err \in Args(heap), withTrace \in BOOLEAN :
    Answered("ToString", err, withTrace, 0,
             Flat(ToString(heap, stacks, err, withTrace)))

\* A call that changes nothing: its arguments err and target, and its
\* results, a boolean, an error and a sequence.
Queried(op, err, target, flag, ret, out) ==
  /\ last' = Call(op, err, "", NoFrame, <<>>, <<target>> \o out, flag, ret, "")
  /\ UNCHANGED <<heap, stacks, pc, loc>>

CauseCall ==
  \E err \in Args(heap) :
    Queried("Cause", err, 0, FALSE, Cause(heap, err), <<>>)

IsCall ==
  \E err \in Args(heap), target \in Args(heap) :
    Queried("Is", err, target, Is(heap, stacks, err, target), 0, <<>>)

StackFramesCall ==
  \E err \in Args(heap) :
    Queried("StackFrames", err, 0, FALSE, 0, StackFrames(heap, stacks, err))

(***************************************************************************)
(* The specification of the whole builder on a small heap, with one code   *)
(* and one property value.                                                 *)
(***************************************************************************)
NewOp == NewCall(MaxHeap, NewMsgs, NewSites)
ErrorfOp == ErrorfCall(MaxHeap, OneSite)
ExternalOp == ExternalCall(MaxHeap)
WrapOp == WrapCall(MaxHeap, PassMsgs, OneSite)
WrapfOp == WrapfCall(MaxHeap, PassMsgs, OneSite)
PassThroughOp == PassThroughCall(MaxHeap, PassMsgs)
PassThroughfOp == PassThroughfCall(MaxHeap, PassMsgs, OneSite)
JoinOp == JoinCall(MaxHeap, OneSite)
WithOp == WithCall(MaxHeap, Fields(OneCode, Vals))
WithCodeOp == WithCodeCall(MaxHeap, OneCode)
WithPropertyOp == WithPropertyCall(MaxHeap, Vals)

Next ==
  \/ NewOp
  \/ ErrorfOp
  \/ ExternalOp
  \/ WrapOp
  \/ WrapfOp
  \/ PassThroughOp
  \/ PassThroughfOp
  \/ JoinOp
  \/ WithOp
  \/ WithCodeOp
  \/ WithPropertyOp
  \/ UnwrapCall

Spec == Init /\ [][Next]_vars

(***************************************************************************)
(* The specification of the stack recorder's effects: the calls that build *)
(* chains, from two call sites, on a larger heap.                          *)
(***************************************************************************)
StackNew == NewCall(MaxStackHeap, NewMsgs, NewSites)
StackExternal == ExternalCall(MaxStackHeap)
StackJoin == JoinCall(MaxStackHeap, OneSite)
StackWrap == WrapCall(MaxStackHeap, PassMsgs, WrapSites)
StackWrapf == WrapfCall(MaxStackHeap, PassMsgs, OneSite)

NextStack ==
  \/ StackNew
  \/ StackExternal
  \/ StackJoin
  \/ StackWrap
  \/ StackWrapf

SpecStack == Init /\ [][NextStack]_vars

(***************************************************************************)
(* The specification of codes and properties: With and PassThrough with    *)
(* two codes.                                                              *)
(***************************************************************************)
KVNew == NewCall(MaxKVHeap, NewMsgs, NewSites)
KVExternal == ExternalCall(MaxKVHeap)
KVWrap == WrapCall(MaxKVHeap, PassMsgs, OneSite)
KVWith == WithCall(MaxKVHeap, Fields(InCodes, Vals))
KVPassThrough == PassThroughCall(MaxKVHeap, PassMsgs)

NextKV ==
  \/ KVNew
  \/ KVExternal
  \/ KVWrap
  \/ KVWith
  \/ KVPassThrough

SpecKV == Init /\ [][NextKV]_vars

(***************************************************************************)
(* The specification of the traversal: chains and joins are built, and     *)
(* Cause, Is and StackFrames are asked about them.                         *)
(***************************************************************************)
MaxWalkHeap == 4

\* The messages of New: the message of a wrap and the message of a Join.
WalkMsgs == {"additional context", "join error"}

WalkNew == NewCall(MaxWalkHeap, WalkMsgs, OneSite)
WalkExternal == ExternalCall(MaxWalkHeap)
WalkWrap == WrapCall(MaxWalkHeap, PassMsgs, OneSite)
WalkJoin == JoinCall(MaxWalkHeap, OneSite)
WalkWithCode == WithCodeCall(MaxWalkHeap, {CodeUnknown})

NextWalk ==
  \/ WalkNew
  \/ WalkExternal
  \/ WalkWrap
  \/ WalkJoin
  \/ WalkWithCode
  \/ CauseCall
  \/ IsCall
  \/ StackFramesCall

SpecWalk == Init /\ [][NextWalk]_vars

(***************************************************************************)
(* The specification of As: chains and joins are built, and As is asked    *)
(* about them with every target.                                           *)
(***************************************************************************)
MaxAsHeap == 4

\* The second arguments of As: nil, a value that is no pointer, a nil
\* pointer, and the pointers to a slot of each type with each value the
\* type has.
AsTargets(h) ==
  {AsTarget("nil", ErrorType, 0), AsTarget("value", ErrorType, 0),
   AsTarget("nilptr", ErrorType, 0), AsTarget("ptr", OtherType, 0)}
  \cup {AsTarget("ptr", ErrorType, v) : v \in Args(h)}
  \cup {AsTarget("ptr", ForeignType, v) :
          v \in {0} \cup {e \in Ids(h) : TypeOf(h, e) = ForeignType}}

AsCall ==
  \E err \in Args(heap), target \in AsTargets(heap) :
    /\ last' = Call("As", err, "", NoFrame, <<target>>, <<>>,
                    As(heap, err, target).ok, As(heap, err, target).val, "")
    /\ UNCHANGED <<heap, stacks, pc, loc>>

AsNew == NewCall(MaxAsHeap, WalkMsgs, OneSite)
AsExternal == ExternalCall(MaxAsHeap)
AsWrap == WrapCall(MaxAsHeap, PassMsgs, OneSite)
AsJoin == JoinCall(MaxAsHeap, OneSite)

NextAs ==
  \/ AsNew
  \/ AsExternal
  \/ AsWrap
  \/ AsJoin
  \/ AsCall

SpecAs == Init /\ [][NextAs]_vars

(***************************************************************************)
(* The specification of the typed queries: chains get properties of two    *)
(* types, and GetProperty, GetPropertyP and As are asked about them with   *)
(* every type and every target.                                            *)
(***************************************************************************)
MaxTypedHeap == 3

\* GetProperty[T](err, key) and GetPropertyP[T](err, key): the key and the
\* type are in the record of the call as a field.
GetPropertyCall ==
  \E err \in Args(heap), key \in Keys, typ \in ValueTypes :
    /\ last' = Call("GetProperty", err, "", NoFrame, <<KVs(key, typ)>>, <<>>,
                    GetProperty(heap, err, key, typ).ok, 0,
                    GetProperty(heap, err, key, typ).val)
    /\ UNCHANGED <<heap, stacks, pc, loc>>

GetPropertyPCall ==
  \E err \in Args(heap), key \in Keys, typ \in ValueTypes :
    /\ last' = Call("GetPropertyP", err, "", NoFrame, <<KVs(key, typ)>>, <<>>,
                    GetPropertyP(heap, err, key, typ).ok, 0,
                    GetPropertyP(heap, err, key, typ).val)
    /\ UNCHANGED <<heap, stacks, pc, loc>>

TypedNew == NewCall(MaxTypedHeap, NewMsgs, OneSite)
TypedExternal == ExternalCall(MaxTypedHeap)
TypedWrap == WrapCall(MaxTypedHeap, PassMsgs, OneSite)
TypedWithProperty == WithPropertyCall(MaxTypedHeap, Vals \cup IntVals)

NextTyped ==
  \/ TypedNew
  \/ TypedExternal
  \/ TypedWrap
  \/ TypedWithProperty
  \/ AsCall
  \/ GetPropertyCall
  \/ GetPropertyPCall

SpecTyped == Init /\ [][NextTyped]_vars

(***************************************************************************)
(* The specification of matching: native chains and joins of them, with    *)
(* codes and properties, and Is asked about every pair of them.            *)
(***************************************************************************)
MaxIsHeap == 4

IsNew == NewCall(MaxIsHeap, WalkMsgs, OneSite)
IsWrapOp == WrapCall(MaxIsHeap, PassMsgs, OneSite)
IsJoin == JoinCall(MaxIsHeap, OneSite)
IsWithCode == WithCodeCall(MaxIsHeap, {CodeUnknown})
IsWithProperty == WithPropertyCall(MaxIsHeap, Vals)

NextIs ==
  \/ IsNew
  \/ IsWrapOp
  \/ IsJoin
  \/ IsWithCode
  \/ IsWithProperty
  \/ IsCall

SpecIs == Init /\ [][NextIs]_vars

(***************************************************************************)
(* The specification of joins: native and foreign errors are joined and    *)
(* wrapped, and Is is asked about every pair of them.                      *)
(***************************************************************************)
MaxJoinHeap == 5

JoinNew == NewCall(MaxJoinHeap, NewMsgs, OneSite)
JoinExternal == ExternalCall(MaxJoinHeap)
JoinJoin == JoinCall(MaxJoinHeap, OneSite)
JoinWrap == WrapCall(MaxJoinHeap, PassMsgs, OneSite)

NextJoin ==
  \/ JoinNew
  \/ JoinExternal
  \/ JoinJoin
  \/ JoinWrap
  \/ IsCall

SpecJoin == Init /\ [][NextJoin]_vars

(***************************************************************************)
(* The specification of the renderer: a chain is built by New or by Wrap   *)
(* of a foreign error, With, and up to MaxLinks times Wrap and With; then  *)
(* it is rendered.                                                         *)
(***************************************************************************)
MaxLinks == 2

FmtRootMsgs == {"root error", ""}

FmtFields == {<<>>, <<Codes(CodeInvalidArgument)>>, <<KVs("key1", "val1")>>}

\* The links of ls from position i on, wrapped over r.ret.
RECURSIVE WrapAll(_, _, _)
WrapAll(r, ls, i) ==
  IF i > Len(ls) THEN r
  ELSE LET w == Wrap(r.heap, r.stacks, r.ret, ls[i].msg, 1)
       IN WrapAll(With(w.heap, w.stacks, w.ret, ls[i].fields), ls, i + 1)

InitFmt ==
  \E foreign \in BOOLEAN, msg \in FmtRootMsgs, fields \in FmtFields,
     ls \in SeqsUpTo([msg : WrapMsgs, fields : FmtFields], MaxLinks) :
    LET r0 == IF foreign
                THEN Wrap(<<foreignError("external error", 0)>>, <<>>, 1, msg, 1)
                ELSE New(<<>>, <<>>, msg, 1)
        r == WrapAll(With(r0.heap, r0.stacks, r0.ret, fields), ls, 1)
    IN /\ heap = r.heap
       /\ stacks = r.stacks
       /\ last = NoCall
       /\ pc = <<>>
       /\ loc = <<>>

NextFmt ==
  \/ ToStringCall

SpecFmt == InitFmt /\ [][NextFmt]_vars

(***************************************************************************)
(* The specification of the documents: a chain is built by New, by Wrap of *)
(* a foreign error or by Join of a foreign error and a root, With, and up  *)
(* to MaxDocLinks times Wrap and With; then it and every error in it, and  *)
(* nil, are rendered as texts and as documents with every combination of   *)
(* the options.                                                            *)
(***************************************************************************)
MaxDocLinks == 1

AllOptions ==
  {FormatOptions(io, wt, it, we) : io \in BOOLEAN, wt \in BOOLEAN,
                                   it \in BOOLEAN, we \in BOOLEAN}

\* The options of the last call of ToCustomString or ToCustomJSON are in
\* the record of the call as a field.
Rendered(op, err, options, flag, str) ==
  /\ last' = Call(op, err, "", NoFrame, <<options>>, <<>>, flag, 0, str)
  /\ UNCHANGED <<heap, stacks, pc, loc>>

DocToString ==
  \E err \in Args(heap), withTrace \in BOOLEAN :
    Rendered("ToString", err, FormatOptions(FALSE, withTrace, FALSE, TRUE),
             withTrace, Flat(ToString(heap, stacks, err, withTrace)))

ToCustomStringCall ==
  \E err \in Args(heap), options \in AllOptions :
    Rendered("ToCustomString", err, options, options.WithTrace,
             Flat(ToCustomString(heap, stacks, err,
                                 NewDefaultStringFormat(options))))

ToJSONCall ==
  \E err \in Args(heap), withTrace \in BOOLEAN :
    Rendered("ToJSON", err, FormatOptions(FALSE, withTrace, FALSE, TRUE),
             withTrace, ToJSON(heap, stacks, err, withTrace))

ToCustomJSONCall ==
  \E err \in Args(heap), options \in AllOptions :
    Rendered("ToCustomJSON", err, options, options.WithTrace,
             ToCustomJSON(heap, stacks, err, NewDefaultJSONFormat(options)))

InitDoc ==
  \E shape \in {"new", "foreign", "join"}, msg \in FmtRootMsgs,
     fields \in FmtFields,
     ls \in SeqsUpTo([msg : PassMsgs, fields : FmtFields], MaxDocLinks) :
    LET f == <<foreignError("external error", 0)>>
        n == New(f, <<>>, msg, 1)
        r0 == IF shape = "foreign" THEN Wrap(f, <<>>, 1, msg, 1)
              ELSE IF shape = "join"
                THEN Join(n.heap, n.stacks, <<1, n.ret>>, 1)
              ELSE New(<<>>, <<>>, msg, 1)
        r == WrapAll(With(r0.heap, r0.stacks, r0.ret, fields), ls, 1)
    IN /\ heap = r.heap
       /\ stacks = r.stacks
       /\ last = NoCall
       /\ pc = <<>>
       /\ loc = <<>>

NextDoc ==
  \/ DocToString
  \/ ToCustomStringCall
  \/ ToJSONCall
  \/ ToCustomJSONCall

SpecDoc == InitDoc /\ [][NextDoc]_vars

(***************************************************************************)
(* The specification of the order: a chain of up to MaxOrderLinks links    *)
(* with the two messages of the tests is built over a root or over a root  *)
(* that holds a foreign error, and rendered with every combination of the  *)
(* options.                                                                *)
(***************************************************************************)
MaxOrderLinks == 2

InitOrder ==
  \E foreign \in BOOLEAN,
     ls \in SeqsUpTo([msg : WrapMsgs, fields : {<<>>}], MaxOrderLinks) :
    LET r0 == IF foreign
                THEN Wrap(<<foreignError("external error", 0)>>, <<>>, 1,
                          "root error", 1)
                ELSE New(<<>>, <<>>, "root error", 1)
        r == WrapAll(r0, ls, 1)
    IN /\ heap = r.heap
       /\ stacks = r.stacks
       /\ last = NoCall
       /\ pc = <<>>
       /\ loc = <<>>

OrderToCustomString == ToCustomStringCall

NextOrder ==
  \/ OrderToCustomString

SpecOrder == InitOrder /\ [][NextOrder]_vars

(***************************************************************************)
(* The specification of Unpack: chains with two link messages and with     *)
(* properties are built over roots and foreign errors, and unpacked.       *)
(***************************************************************************)
MaxUnpackHeap == 4

UnpackCall ==
  \E err \in Args(heap) :
    /\ last' = Call("Unpack", err, "", NoFrame, <<Unpack(heap, stacks, err)>>,
                    <<>>, FALSE, 0, "")
    /\ UNCHANGED <<heap, stacks, pc, loc>>

UnpackNew == NewCall(MaxUnpackHeap, NewMsgs, OneSite)
UnpackExternal == ExternalCall(MaxUnpackHeap)
UnpackWrap == WrapCall(MaxUnpackHeap, WrapMsgs, OneSite)
UnpackWithProperty == WithPropertyCall(MaxUnpackHeap, Vals)

NextUnpack ==
  \/ UnpackNew
  \/ UnpackExternal
  \/ UnpackWrap
  \/ UnpackWithProperty
  \/ UnpackCall

SpecUnpack == Init /\ [][NextUnpack]_vars

(***************************************************************************)
(* The specification of With with every Field a caller can build: Field is *)
(* an exported struct, so besides the results of Codes and KVs a caller    *)
(* can hand over a Field of CodeType whose Value is no Code and a Field of *)
(* UnknownType.  A call that panics leaves the fields applied before the   *)
(* panic and returns nothing.                                              *)
(***************************************************************************)
MaxWithHeap == 3

\* A Value whose dynamic type is not Code, in a Field of CodeType.
NotACode == 0 - 2

BuiltFields ==
  Fields(OneCode, Vals)
    \cup {[Type |-> CodeType, Key |-> "", Value |-> NotACode],
          [Type |-> UnknownType, Key |-> "key1", Value |-> "val1"]}

\* The type assertion field.Value.(Code) of WithField panics.
WithFieldPanics(field) == field.Type = CodeType /\ field.Value = NotACode

\* The position of the first field WithField panics on, 0 when there is none.
PanicAt(fields) ==
  LET ps == {i \in 1..Len(fields) : WithFieldPanics(fields[i])}
  IN IF ps = {} THEN 0 ELSE CHOOSE i \in ps : \A j \in ps : i <= j

Panic == "panic: interface conversion: interface {} is not eris.Code"

WithBuiltCall(max, fieldset) ==
  \E err \in Args(heap), fields \in SeqsUpTo(fieldset, MaxFields) :
    /\ Len(heap) + WithAllocs(heap, err) <= max
    /\ IF err = 0 \/ PanicAt(fields) = 0
         THEN Returned("With", err, "", NoFrame, fields, <<>>,
                With(heap, stacks, err, fields))
         ELSE LET r == With(heap, stacks, err,
                            SubSeq(fields, 1, PanicAt(fields) - 1))
              IN /\ heap' = r.heap
                 /\ stacks' = r.stacks
                 /\ last' = Call("With", err, "", NoFrame, fields, <<>>,
                                 TRUE, 0, Panic)
                 /\ UNCHANGED <<pc, loc>>

WithNew == NewCall(MaxWithHeap, NewMsgs, OneSite)
WithExternal == ExternalCall(MaxWithHeap)
WithWrap == WrapCall(MaxWithHeap, PassMsgs, OneSite)
WithBuilt == WithBuiltCall(MaxWithHeap, BuiltFields)

NextWith ==
  \/ WithNew
  \/ WithExternal
  \/ WithWrap
  \/ WithBuilt

SpecWith == Init /\ [][NextWith]_vars

(***************************************************************************)
(* The specification of introspection: roots, foreign errors and links     *)
(* are built and given codes and properties, and GetCode, GetKVs,          *)
(* GetProperty and GetPropertyP are asked about every one of them.         *)
(***************************************************************************)
MaxHeadHeap == 3

GetCodeCall ==
  \E err \in Args(heap) :
    Answered("GetCode", err, FALSE, GetCode(heap, err), "")

GetKVsCall ==
  \E err \in Args(heap) :
    /\ last' = Call("GetKVs", err, "", NoFrame, <<GetKVs(heap, err)>>, <<>>,
                    FALSE, 0, "")
    /\ UNCHANGED <<heap, stacks, pc, loc>>

HeadNew == NewCall(MaxHeadHeap, NewMsgs, OneSite)
HeadExternal == ExternalCall(MaxHeadHeap)
HeadWrap == WrapCall(MaxHeadHeap, PassMsgs, OneSite)
HeadWithCode == WithCodeCall(MaxHeadHeap, OneCode)
HeadWithProperty == WithPropertyCall(MaxHeadHeap, Vals)

NextHead ==
  \/ HeadNew
  \/ HeadExternal
  \/ HeadWrap
  \/ HeadWithCode
  \/ HeadWithProperty
  \/ GetCodeCall
  \/ GetKVsCall
  \/ GetPropertyCall
  \/ GetPropertyPCall

SpecHead == Init /\ [][NextHead]_vars

(***************************************************************************)
(* The specification of concurrent wraps: NThreads threads call Wrap on    *)
(* one root, which is global or local.  A thread runs wrap statement by    *)
(* statement; insertPC on the shared stack is a read and a write with no   *)
(* lock between them.                                                      *)
(***************************************************************************)
NThreads == 2

Threads == 1..NThreads

ConcFields == {<<>>, <<Codes(CodeInvalidArgument), KVs("key1", "val1")>>}

\* The root every thread wraps.
Shared == 1

NoLocals ==
  [msg |-> "", site |-> NoFrame, stack |-> <<>>, frame |-> NoFrame,
   read |-> <<>>, root |-> 0, ret |-> 0]

InitConc ==
  \E site \in NewSites, fields \in ConcFields :
    LET r0 == New(<<>>, <<>>, "root error", site)
        r == With(r0.heap, r0.stacks, r0.ret, fields)
    IN /\ heap = r.heap
       /\ stacks = r.stacks
       /\ last = NoCall
       /\ pc = [t \in Threads |-> "call"]
       /\ loc = [t \in Threads |-> NoLocals]

\* Wrap(err, msg) is called at a call site; err is not nil; callers and
\* caller capture the stack and the frame.
WrapEnter ==
  \E t \in Threads, msg \in PassMsgs, site \in WrapSites :
    /\ pc[t] = "call"
    /\ Shared # 0
    /\ loc' = [loc EXCEPT ![t] = [@ EXCEPT !.msg = msg, !.site = site,
                                           !.stack = callers(site),
                                           !.frame = caller(site)]]
    /\ pc' = [pc EXCEPT ![t] = "switch"]
    /\ UNCHANGED <<heap, stacks, last>>

\* The type switch finds a *rootError and reads its global flag.
WrapSwitch ==
  \E t \in Threads :
    /\ pc[t] = "switch"
    /\ heap[Shared].kind = "root"
    /\ pc' = [pc EXCEPT ![t] = IF global(heap[Shared]) THEN "copy" ELSE "load"]
    /\ UNCHANGED <<heap, stacks, last, loc>>

\* A global root: a new root is built over the captured stack.
WrapCopy ==
  \E t \in Threads :
    /\ pc[t] = "copy"
    /\ stacks' = Append(stacks, loc[t].stack)
    /\ heap' = Append(heap, globalCopy(heap[Shared], Len(stacks) + 1))
    /\ loc' = [loc EXCEPT ![t].root = Len(heap) + 1]
    /\ pc' = [pc EXCEPT ![t] = "link"]
    /\ UNCHANGED last

\* A local root: insertPC reads the stack of the root ...
WrapLoad ==
  \E t \in Threads :
    /\ pc[t] = "load"
    /\ loc' = [loc EXCEPT ![t].read = stacks[heap[Shared].stack]]
    /\ pc' = [pc EXCEPT ![t] = "store"]
    /\ UNCHANGED <<heap, stacks, last>>

\* ... and writes it back with the frame inserted.
WrapStore ==
  \E t \in Threads :
    /\ pc[t] = "store"
    /\ stacks' = [stacks EXCEPT
                    ![heap[Shared].stack] = insertPC(loc[t].read, loc[t].stack)]
    /\ loc' = [loc EXCEPT ![t].root = Shared]
    /\ pc' = [pc EXCEPT ![t] = "link"]
    /\ UNCHANGED <<heap, last>>

\* The link over the root is built and returned.
WrapLink ==
  \E t \in Threads :
    /\ pc[t] = "link"
    /\ heap' = Append(heap, wrapError(loc[t].msg, loc[t].root, loc[t].frame,
                                      DEFAULT_ERROR_CODE_WRAP, NilKVs))
    /\ loc' = [loc EXCEPT ![t].ret = Len(heap) + 1]
    /\ pc' = [pc EXCEPT ![t] = "done"]
    /\ last' = Call("Wrap", Shared, loc[t].msg, loc[t].site, <<>>, <<>>, FALSE,
                    Len(heap) + 1, "")
    /\ UNCHANGED stacks

NextConc ==
  \/ WrapEnter
  \/ WrapSwitch
  \/ WrapCopy
  \/ WrapLoad
  \/ WrapStore
  \/ WrapLink

SpecConc == InitConc /\ [][NextConc]_vars

(***************************************************************************)
(* The properties of the library.                                          *)
(***************************************************************************)
NilOps ==
  {"Wrap", "Wrapf", "PassThrough", "PassThroughf", "With", "WithCode",
   "WithProperty"}

\* C1: Wrap, Wrapf, PassThrough, PassThroughf, With, WithCode and
\* WithProperty return nil when err is nil, whatever the message or fields;
\* Join returns nil exactly when it has no non-nil argument.
NilAbsorbing ==
  /\ last.op \in NilOps /\ last.err = 0 => last.ret = 0
  /\ last.op = "Join" =>
       (last.ret = 0 <=> \A i \in 1..Len(last.errs) : last.errs[i] = 0)

NilAbsorbingWitness ==
  /\ last.op = "With" /\ last.err = 0 /\ last.fields # <<>> /\ last.ret = 0
  /\ heap # <<>>

\* C7: the root New or Errorf returns has code UNKNOWN; the node Wrap or
\* Wrapf returns (the link over a native chain, the root over a foreign
\* error) has code INTERNAL.
DefaultCodes ==
  /\ last.op \in {"New", "Errorf"} => heap[last.ret].code = CodeUnknown
  /\ last.op \in {"Wrap", "Wrapf"} /\ last.ret # 0 =>
       heap[last.ret].code = CodeInternal

DefaultCodesWitness ==
  /\ last.op = "Wrap"
  /\ IsForeign(heap, last.err)
  /\ IsRoot(heap, last.ret)
  /\ heap[last.ret].code = CodeInternal

\* C10 as stated: Unwrap is the next node of a LinkNode, the ForeignError
\* of a RootNode and nil for every other value, any foreign error included.
UnwrapForeignNil ==
  last.op = "Unwrap" =>
    /\ IsWrap(heap, last.err) => last.ret = heap[last.err].next
    /\ IsRoot(heap, last.err) => last.ret = heap[last.err].next
    /\ ~IsNative(heap, last.err) => last.ret = 0

\* C10 as amended: Unwrap is the next node of a LinkNode, the ForeignError
\* of a RootNode, the wrapped error of a foreign error that has an Unwrap
\* method, and nil for nil and for a join aggregate.
UnwrapRule ==
  last.op = "Unwrap" =>
    /\ IsWrap(heap, last.err) => last.ret = heap[last.err].next
    /\ IsRoot(heap, last.err) => last.ret = heap[last.err].next
    /\ last.err = 0 => last.ret = 0
    /\ IsForeign(heap, last.err) /\ heap[last.err].kind = "join" => last.ret = 0
    /\ IsForeign(heap, last.err) /\ heap[last.err].kind = "ext" =>
         last.ret = heap[last.err].next

UnwrapRuleWitness ==
  /\ last.op = "Unwrap"
  /\ IsRoot(heap, last.err)
  /\ IsForeign(heap, last.ret)

WrapOps == {"Wrap", "Wrapf"}

\* C2: for a local root r, every Wrap or Wrapf of r, or of a chain whose
\* root is r, adds exactly one frame to the Stack of r.
LocalRootAccumulation ==
  [][\A r \in Ids(heap) :
       (/\ IsRoot(heap, r) /\ ~heap[r].global
        /\ last'.op \in WrapOps /\ last'.err \in Ids(heap)
        /\ ChainRoot(heap, last'.err) = r)
       => Len(stacks'[heap[r].stack]) = Len(stacks[heap[r].stack]) + 1]_vars

\* C2: a chain over a local root that holds a foreign error has been
\* wrapped twice, and the Stack of the root has grown by one frame only.
LocalRootForeignWitness ==
  /\ last.op = "Wrap" /\ IsWrap(heap, last.err)
  /\ heap[last.err].next = ChainRoot(heap, last.err)
  /\ LET r == ChainRoot(heap, last.err)
     IN /\ IsRoot(heap, r) /\ ~heap[r].global /\ heap[r].next # 0
        /\ Len(stacks[heap[r].stack]) = 2

\* C3: two successive wraps of one global root from two call sites return
\* chains over two distinct roots, neither of them the global root; each
\* root has a Stack of its own, which holds the frame of its own call site
\* and nothing else.
GlobalRootIsolation ==
  [][(/\ last.op \in WrapOps /\ last'.op \in WrapOps
      /\ last.err = last'.err /\ last.site # last'.site
      /\ IsRoot(heap, last.err) /\ heap[last.err].global)
     => LET g == last.err
            r1 == ChainRoot(heap', last.ret)
            r2 == ChainRoot(heap', last'.ret)
        IN /\ IsRoot(heap', r1) /\ IsRoot(heap', r2)
           /\ r1 # r2 /\ r1 # g /\ r2 # g
           /\ heap'[r1].stack # heap'[r2].stack
           /\ heap'[r1].stack # heap'[g].stack
           /\ heap'[r2].stack # heap'[g].stack
           /\ stacks'[heap'[r1].stack] = <<last.site>>
           /\ stacks'[heap'[r2].stack] = <<last'.site>>]_vars

\* C3: a global root made at package initialisation has been wrapped from
\* call site 1 and then from call site 2.
GlobalRootIsolationWitness ==
  /\ last.op = "Wrap" /\ last.site = 2
  /\ IsRoot(heap, last.err) /\ heap[last.err].global
  /\ stacks[heap[last.err].stack] = <<InitSite>>
  /\ \E w \in Ids(heap) :
       /\ IsWrap(heap, w) /\ heap[w].frame = 1 /\ w # last.ret
       /\ heap[w].next # heap[last.ret].next
       /\ heap[heap[w].next].msg = heap[last.err].msg
       /\ stacks[heap[heap[w].next].stack] = <<1>>
       /\ stacks[heap[heap[last.ret].next].stack] = <<2>>

\* C4: no call changes the Stack of a root whose global flag is set, and
\* every Wrap or Wrapf of a global root returns a link over a new root
\* with the message and the code of the global root.
GlobalStackNeverMutated ==
  [][/\ \A r \in Ids(heap) :
          IsRoot(heap, r) /\ heap[r].global
          => stacks'[heap[r].stack] = stacks[heap[r].stack]
     /\ (/\ last'.op \in WrapOps /\ IsRoot(heap, last'.err)
         /\ heap[last'.err].global)
        => LET r == ChainRoot(heap', last'.ret)
           IN /\ r \notin Ids(heap) /\ IsRoot(heap', r)
              /\ heap'[r].msg = heap[last'.err].msg
              /\ heap'[r].code = heap[last'.err].code]_vars

\* C4: the Stack of a global root made at package initialisation holds a
\* frame of a wrap.
SentinelStackWitness ==
  \E g \in Ids(heap) :
    /\ IsRoot(heap, g) /\ heap[g].global
    /\ Len(stacks[heap[g].stack]) = 2
    /\ stacks[heap[g].stack][2] = InitSite

CodeAfter(code, fields) ==
  LET is == {i \in 1..Len(fields) : fields[i].Type = CodeType}
  IN IF is = {} THEN code
     ELSE fields[CHOOSE i \in is : \A j \in is : j <= i].Value

\* The properties after the fields: under each key the value of the last
\* KV field of that key, the value before them without one.
KVsAfter(kvs, fields) ==
  [k \in Keys |->
     LET is == {i \in 1..Len(fields) :
                  fields[i].Type = KVType /\ fields[i].Key = k}
     IN IF is = {} THEN kvs[k]
        ELSE fields[CHOOSE i \in is : \A j \in is : j <= i].Value]

\* C9: With(err, fields...) on a root or a link returns err; the fields
\* are applied in order to the code and the properties of that node, and
\* its message, stack, frame and successor, every other node and every
\* stack stay as they were.  On a foreign error it returns a new root with
\* the message "with property" over err, the fields applied on top of the
\* code INTERNAL, and changes no node.
WithInPlace ==
  [][last'.op = "With" /\ last'.err # 0
     => LET err == last'.err
            fields == last'.fields
            ret == last'.ret
        IN IF IsNative(heap, err)
             THEN /\ ret = err
                  /\ Len(heap') = Len(heap)
                  /\ stacks' = stacks
                  /\ \A i \in Ids(heap) \ {err} : heap'[i] = heap[i]
                  /\ heap'[err] =
                       [heap[err] EXCEPT
                          !.code = CodeAfter(heap[err].code, fields),
                          !.kvs = KVsAfter(heap[err].kvs, fields)]
             ELSE /\ ret = Len(heap) + 1
                  /\ Len(heap') = Len(heap) + 1
                  /\ \A i \in Ids(heap) : heap'[i] = heap[i]
                  /\ stacks' = Append(stacks, <<WithSite>>)
                  /\ heap'[ret] =
                       rootError(FALSE, "with property", err, Len(stacks'),
                                 CodeAfter(CodeInternal, fields),
                                 KVsAfter(NilKVs, fields))]_vars

\* C9: With has put a code and a property on a link.
WithInPlaceWitness ==
  /\ last.op = "With" /\ IsWrap(heap, last.err) /\ last.ret = last.err
  /\ Len(last.fields) = 2
  /\ last.fields[1].Type = CodeType /\ last.fields[2].Type = KVType
  /\ heap[last.err].code = CodeInvalidArgument
  /\ heap[last.err].kvs["key1"] = "val1"

\* A node printed as code(<label>)[ KVs(<props>)] <message>.
NodeText(n) ==
  "code(" \o CodeString(n.code) \o ")"
  \o (IF \E k \in Keys : n.kvs[k] # Absent
        THEN " KVs(" \o Flat(MapString(n.kvs)) \o ")"
        ELSE "")
  \o " " \o n.msg

\* A root is printed as nothing when omit is set and it has the code
\* UNKNOWN, no property and an empty message; as a node otherwise.
RootText(n, omit) ==
  IF omit /\ n.msg = "" /\ n.code = CodeUnknown /\ n.kvs = NilKVs
    THEN ""
    ELSE NodeText(n)

\* The links from the outermost to the innermost and then the root, joined
\* by ": ".
RECURSIVE ChainText(_, _, _)
ChainText(h, err, omit) ==
  IF h[err].kind = "wrap"
    THEN NodeText(h[err]) \o ": " \o ChainText(h, h[err].next, omit)
    ELSE RootText(h[err], omit)

\* err is the head of a chain over a root without foreign error.
NativeChain(h, err) ==
  /\ IsNative(h, err)
  /\ IsRoot(h, ChainRoot(h, err)) /\ h[ChainRoot(h, err)].next = 0

\* The chain New("root error") wrapped with "additional context" and then
\* with "even more context".
LiteralChain(h, err) ==
  /\ IsWrap(h, err) /\ IsWrap(h, h[err].next) /\ IsRoot(h, h[h[err].next].next)
  /\ LET w2 == h[err]
         w1 == h[w2.next]
         r == h[w1.next]
     IN /\ w2.msg = "even more context" /\ w1.msg = "additional context"
        /\ r.msg = "root error" /\ r.next = 0
        /\ w2.code = CodeInternal /\ w1.code = CodeInternal
        /\ r.code = CodeUnknown
        /\ w2.kvs = NilKVs /\ w1.kvs = NilKVs /\ r.kvs = NilKVs

LiteralText ==
  "code(internal) even more context: code(internal) additional context: code(unknown) root error"

\* C6 as stated: ToString(err, false) of a chain over a root without
\* foreign error is the links from the outermost to the innermost and then
\* the root, each printed as code(<label>)[ KVs(<props>)] <message>, joined
\* by ": ".
DefaultStringEveryRoot ==
  last.op = "ToString" /\ ~last.flag /\ NativeChain(heap, last.err)
  => last.str = ChainText(heap, last.err, FALSE)

\* C6 as amended: the same, except that a root with the code UNKNOWN, no
\* property and an empty message is printed as nothing; and the chain
\* New("root error") wrapped with "additional context" and then with "even
\* more context" is printed as the literal text.
DefaultString ==
  last.op = "ToString" /\ ~last.flag /\ NativeChain(heap, last.err)
  => /\ last.str = ChainText(heap, last.err, TRUE)
     /\ LiteralChain(heap, last.err) => last.str = LiteralText

\* C6: the literal chain has been printed as the literal text.
DefaultStringWitness ==
  /\ last.op = "ToString" /\ ~last.flag /\ LiteralChain(heap, last.err)
  /\ last.str = LiteralText

\* Every call that has returned owns its root and its stack: a root that is
\* not the shared root, over a stack that is not the shared root's and holds
\* the frame of the call's own site only; no other call that has returned
\* has the same link, the same root or the same stack.
Owned ==
  \A t \in Threads :
    pc[t] = "done"
    => LET w == loc[t].ret
           r == heap[w].next
       IN /\ IsWrap(heap, w) /\ IsRoot(heap, r)
          /\ r # Shared
          /\ heap[r].stack # heap[Shared].stack
          /\ stacks[heap[r].stack] = <<loc[t].site>>
          /\ \A u \in Threads \ {t} :
               pc[u] = "done"
               => /\ loc[u].ret # w
                  /\ heap[loc[u].ret].next # r
                  /\ heap[heap[loc[u].ret].next].stack # heap[r].stack

\* C5: when the threads wrap one global root, no step of any thread
\* changes the message, the code, the properties or the Stack of that
\* root, and after every step each call that has returned owns a root and
\* a Stack that no other call's result shares.
ConcurrentWrapSafe ==
  [][heap[Shared].global
     => /\ heap'[Shared] = heap[Shared]
        /\ stacks'[heap[Shared].stack] = stacks[heap[Shared].stack]
        /\ Owned']_vars

\* C5: every thread has wrapped the global root, which has a property; two
\* of the calls were made from different sites.
ConcurrentWrapWitness ==
  /\ heap[Shared].global /\ heap[Shared].kvs["key1"] = "val1"
  /\ \A t \in Threads : pc[t] = "done"
  /\ \E t, u \in Threads : loc[t].site # loc[u].site
  /\ Len(heap) = 1 + 2 * NThreads

\* The errors of the Unwrap sequence that starts at err.
RECURSIVE UnwrapWalk(_, _)
UnwrapWalk(h, err) ==
  IF err = 0 THEN {} ELSE {err} \cup UnwrapWalk(h, Unwrap(h, err))

\* C11: Cause(nil) is nil; for a non-nil err Cause(err) is the error of the
\* Unwrap sequence of err that unwraps to nil: the root of the chain when
\* the root is local and holds no foreign error, the foreign error of the
\* root when that cannot be unwrapped.
CauseIsLast ==
  last.op = "Cause"
  => /\ last.err = 0 => last.ret = 0
     /\ last.err # 0
        => /\ last.ret \in UnwrapWalk(heap, last.err)
           /\ Unwrap(heap, last.ret) = 0
     /\ LET r == ChainRoot(heap, last.err)
        IN IsRoot(heap, r)
           => /\ ~heap[r].global /\ heap[r].next = 0 => last.ret = r
              /\ heap[r].next # 0 /\ Unwrap(heap, heap[r].next) = 0
                 => last.ret = heap[r].next

\* C11: Cause of a link over a root over a foreign error is that error.
CauseIsLastWitness ==
  /\ last.op = "Cause" /\ IsWrap(heap, last.err)
  /\ IsRoot(heap, heap[last.err].next)
  /\ IsForeign(heap, last.ret) /\ heap[last.ret].kind = "ext"
  /\ heap[heap[last.err].next].next = last.ret

\* The target of the last call of Is.
Target == last.errs[1]

\* C15: Is(nil, nil) is true, Is(x, nil) is false for a non-nil x and
\* Is(nil, x) is false for a non-nil x.
IsWithNil ==
  last.op = "Is"
  => /\ last.err = 0 /\ Target = 0 => last.flag
     /\ last.err # 0 /\ Target = 0 => ~last.flag
     /\ last.err = 0 /\ Target # 0 => ~last.flag

\* C15: a chain has been compared with nil.
IsWithNilWitness ==
  last.op = "Is" /\ IsWrap(heap, last.err) /\ Target = 0 /\ ~last.flag

\* C18: StackFrames(err) is the whole Stack of err when err is a root, the
\* one frame of err when err is a link, and empty when err is foreign or
\* nil.
StackFramesRule ==
  last.op = "StackFrames"
  => LET out == Tail(last.errs)
     IN /\ IsRoot(heap, last.err) => out = stacks[heap[last.err].stack]
        /\ IsWrap(heap, last.err)
           => Len(out) = 1 /\ out[1] = heap[last.err].frame
        /\ ~IsNative(heap, last.err) => out = <<>>

\* C18: StackFrames of a link over a root whose Stack has two frames.
StackFramesWitness ==
  /\ last.op = "StackFrames" /\ IsWrap(heap, last.err)
  /\ Len(stacks[heap[ChainRoot(heap, last.err)].stack]) = 2
  /\ Len(Tail(last.errs)) = 1

\* The errors Is(err, _) looks at: those of the Unwrap sequence of err and,
\* below a root that wraps a join aggregate, those of every member.
RECURSIVE Reach(_, _)
Reach(h, err) ==
  IF err = 0 THEN {}
  ELSE IF IsRoot(h, err) /\ HasJoin(h, err)
    THEN {err, h[err].next}
         \cup UNION {Reach(h, h[h[err].next].members[i]) :
                       i \in 1..Len(h[h[err].next].members)}
  ELSE {err} \cup Reach(h, Unwrap(h, err))

\* A member of the join aggregate that the root n wraps satisfies Is.
MemberIs(h, st, n, target) ==
  /\ IsRoot(h, n) /\ HasJoin(h, n)
  /\ \E i \in 1..Len(h[h[n].next].members) :
       Is(h, st, h[h[n].next].members[i], target)

Members(h, n) ==
  {h[h[n].next].members[i] : i \in 1..Len(h[h[n].next].members)}

\* The error n is target, or is a root or a link that wraps no join
\* aggregate and compares equal to target.
Matches(h, st, n, target) ==
  \/ n = target
  \/ /\ IsNative(h, n) /\ ~HasJoin(h, n)
     /\ IF IsNative(h, target) THEN SameFields(h, n, target)
        ELSE /\ h[n].msg = ErrorString(h, st, target)
             /\ IsRoot(h, n) => h[n].code = DEFAULT_UNKNOWN_CODE

SlotBefore == last.fields[1].val
SlotAfter == last.ret

\* The first error that As(err, _) looks at which is a foreign error of the
\* type of the slot, or a root or link with the message of the root or link
\* in the slot; 0 when there is none.
RECURSIVE FirstMatch(_, _, _, _)
RECURSIVE FirstMember(_, _, _, _, _)
FirstMatch(h, err, type, val) ==
  IF err = 0 THEN 0
  ELSE IF ~IsNative(h, err) /\ AssignableTo(TypeOf(h, err), type) THEN err
  ELSE IF IsRoot(h, err) /\ HasJoin(h, err)
          /\ FirstMember(h, h[h[err].next].members, 1, type, val) # 0
    THEN FirstMember(h, h[h[err].next].members, 1, type, val)
  ELSE IF /\ IsNative(h, err) /\ ~HasJoin(h, err) /\ val # 0
          /\ h[val].kind = h[err].kind /\ h[val].msg = h[err].msg THEN err
  ELSE FirstMatch(h, Unwrap(h, err), type, val)

FirstMember(h, members, i, type, val) ==
  IF i > Len(members) THEN 0
  ELSE IF FirstMatch(h, members[i], type, val) # 0
    THEN FirstMatch(h, members[i], type, val)
  ELSE FirstMember(h, members, i + 1, type, val)

\* C16 as stated: when As(err, target) is true the slot holds the first
\* error of the chain of err that matched, the node of the chain itself
\* for a native match, and when it is false the slot holds what it held.
AsSetsTarget ==
  last.op = "As"
  => IF last.flag
       THEN SlotAfter = FirstMatch(heap, last.err, last.fields[1].type,
                                   SlotBefore)
       ELSE SlotAfter = SlotBefore

\* C16: a root has matched a slot that holds another root with the same
\* message, and the slot still holds that other root.
AsKeepsTargetWitness ==
  /\ last.op = "As" /\ last.flag /\ IsRoot(heap, last.err)
  /\ SlotBefore # last.err /\ SlotAfter = SlotBefore

\* The key, the type parameter and the stored value of the last call of
\* GetProperty or GetPropertyP.
AskedKey == last.fields[1].Key
AskedType == last.fields[1].Value
Stored == GetKVs(heap, last.err)[AskedKey]

\* C17: GetProperty[T] returns the zero value and false, and GetPropertyP[T]
\* nil, when the key is absent and when the stored value is not a T; As
\* returns false when err is nil and when target is nil, no pointer, a nil
\* pointer, or a pointer to a type that is no interface and no error.
TypeMismatch ==
  /\ last.op \in {"GetProperty", "GetPropertyP"}
     /\ (Stored = Absent \/ ValueType(Stored) # AskedType)
     => /\ ~last.flag
        /\ last.op = "GetProperty" => last.str = Zero(AskedType)
  /\ last.op = "As"
     /\ \/ last.err = 0
        \/ last.fields[1].kind \in {"nil", "value", "nilptr"}
        \/ last.fields[1].type = OtherType
     => ~last.flag /\ SlotAfter = SlotBefore

\* C17: GetProperty[int] has been asked for a key that holds a string.
TypeMismatchWitness ==
  /\ last.op = "GetProperty" /\ ~last.flag
  /\ Stored # Absent /\ AskedType = IntType
  /\ ValueType(Stored) = StringType

\* The document of the last call of ToJSON or ToCustomJSON.
Doc == last.str

NilRendersEmpty ==
  last.err = 0
  => /\ last.op \in {"ToString", "ToCustomString"} => last.str = ""
     /\ last.op \in {"ToJSON", "ToCustomJSON"} => Doc.keys = {}

\* C20: ToString(nil, false) is the text of a root with the code unknown.
NilPrintsCode ==
  /\ last.op = "ToString" /\ last.err = 0 /\ ~last.flag
  /\ last.str = "code(unknown) "

\* strings.HasPrefix and strings.HasSuffix
HasPrefix(s, prefix) ==
  Len(s) >= Len(prefix) /\ SubSeq(s, 1, Len(prefix)) = prefix
HasSuffix(s, suffix) ==
  Len(s) >= Len(suffix) /\ SubSeq(s, Len(s) - Len(suffix) + 1, Len(s)) = suffix

\* The options of the last call of a renderer and the separator between
\* the errors of its format.
Options == last.fields[1]
ErrorSepOfCall == Flat(NewDefaultStringFormat(Options).ErrorSep)

\* The chain of err has at least one link and ends in a root with an empty
\* message, the code UNKNOWN and no property.
TrivialRootChain(h, err) ==
  /\ err # 0 /\ IsWrap(h, err)
  /\ LET r == ChainRoot(h, err)
     IN /\ IsRoot(h, r) /\ h[r].msg = ""
        /\ h[r].code = DEFAULT_ERROR_CODE_NEW /\ LenKVs(h[r].kvs) = 0

\* C21 as stated: the text ToCustomString gives for a chain of links over a
\* root with an empty message, the code UNKNOWN and no property neither
\* starts nor ends with the separator between the errors, in both orders.
NoDanglingSeparator ==
  last.op = "ToCustomString" /\ TrivialRootChain(heap, last.err)
  => /\ ~HasPrefix(last.str, ErrorSepOfCall)
     /\ ~HasSuffix(last.str, ErrorSepOfCall)

\* C21: the text of Wrap(New(""), "additional context") in the default
\* order without trace ends with the separator.
DanglingSeparatorWitness ==
  /\ last.op = "ToCustomString" /\ TrivialRootChain(heap, last.err)
  /\ ~Options.InvertOutput /\ ~Options.WithTrace
  /\ last.str = "code(internal) additional context: "

\* strings.Index, counted from 1: the first position of sub in s, 0 when
\* there is none.
Index(s, sub) ==
  LET ps == {i \in 1..(Len(s) - Len(sub) + 1) :
               SubSeq(s, i, i + Len(sub) - 1) = sub}
  IN IF ps = {} THEN 0 ELSE CHOOSE i \in ps : \A j \in ps : i <= j

\* The messages of the links of the chain of err, outermost first.
RECURSIVE LinkMsgs(_, _)
LinkMsgs(h, err) ==
  IF err # 0 /\ IsWrap(h, err) THEN <<h[err].msg>> \o LinkMsgs(h, h[err].next)
  ELSE <<>>

Reverse(s) == [i \in 1..Len(s) |-> s[Len(s) + 1 - i]]

\* The messages of the root of the chain of err and of the foreign error
\* the root holds, when there are such.
RootMsgs(h, err) ==
  IF IsRoot(h, ChainRoot(h, err)) THEN <<h[ChainRoot(h, err)].msg>> ELSE <<>>

ForeignLeaf(h, err) ==
  IF IsRoot(h, ChainRoot(h, err)) THEN h[ChainRoot(h, err)].next
  ELSE ChainRoot(h, err)

ForeignMsgs(h, err, options) ==
  IF options.WithExternal /\ ForeignLeaf(h, err) # 0
    THEN <<h[ForeignLeaf(h, err)].msg>> ELSE <<>>

\* The messages in the order of C22.
OrderedMsgs(h, err, options) ==
  IF options.InvertOutput
    THEN ForeignMsgs(h, err, options) \o RootMsgs(h, err)
         \o Reverse(LinkMsgs(h, err))
    ELSE LinkMsgs(h, err) \o RootMsgs(h, err) \o ForeignMsgs(h, err, options)

\* The first position of sub in s at or after position from, 0 when there
\* is none.
IndexAfter(s, sub, from) ==
  LET ps == {i \in from..(Len(s) - Len(sub) + 1) :
               SubSeq(s, i, i + Len(sub) - 1) = sub}
  IN IF ps = {} THEN 0 ELSE CHOOSE i \in ps : \A j \in ps : i <= j

\* The messages from position i on stand in s one after the other, in their
\* order, from position from on.
RECURSIVE InOrder(_, _, _, _)
InOrder(s, msgs, i, from) ==
  IF i > Len(msgs) THEN TRUE
  ELSE LET p == IndexAfter(s, msgs[i], from)
       IN p > 0 /\ InOrder(s, msgs, i + 1, p + Len(msgs[i]))

WrapReachesRoot ==
  [][(/\ last'.op = "Wrap" /\ IsWrap(heap, last'.err)
      /\ IsRoot(heap, ChainRoot(heap, last'.err)))
     => LET r == ChainRoot(heap, last'.err)
        IN stacks'[heap[r].stack]
             = insertPC(stacks[heap[r].stack], callers(last'.site))]_vars

\* C23: a link over a RootNode that holds a ForeignError has been wrapped,
\* and the frame of that wrap is not in the Stack of the RootNode.
WrapMissesRootWitness ==
  /\ last.op = "Wrap" /\ IsWrap(heap, last.err)
  /\ LET r == ChainRoot(heap, last.err)
     IN /\ IsRoot(heap, r) /\ IsForeign(heap, heap[r].next)
        /\ \A i \in 1..Len(stacks[heap[r].stack]) :
             stacks[heap[r].stack][i] # last.site

RECURSIVE Links(_, _)
Links(h, err) ==
  IF err # 0 /\ IsWrap(h, err) THEN <<err>> \o Links(h, h[err].next)
  ELSE <<>>

Unpacked == last.fields[1]

\* C25: ErrChain of Unpack(err) holds one entry for each LinkNode met from
\* err down, the innermost first and the outermost last; when the links
\* end at a RootNode, ErrRoot has its message, code, properties and Stack
\* and ErrExternal is its ForeignError, nil when it has none; when they end
\* at a foreign error, ErrExternal is that error, whatever it wraps, and
\* ErrRoot is left zero.
UnpackFlattens ==
  last.op = "Unpack"
  => LET ls == Links(heap, last.err)
         r == ChainRoot(heap, last.err)
     IN /\ Len(Unpacked.ErrChain) = Len(ls)
        /\ \A i \in 1..Len(ls) :
             LET n == heap[ls[Len(ls) + 1 - i]]
             IN Unpacked.ErrChain[i]
                  = [Msg |-> n.msg, Frame |-> n.frame, code |-> n.code,
                     kvs |-> n.kvs]
        /\ IsRoot(heap, r)
           => /\ Unpacked.ErrRoot
                   = [Msg |-> heap[r].msg, Stack |-> stacks[heap[r].stack],
                      code |-> heap[r].code, kvs |-> heap[r].kvs]
              /\ Unpacked.ErrExternal = heap[r].next
        /\ ~IsRoot(heap, r)
           => /\ Unpacked.ErrRoot = ZeroUnpacked.ErrRoot
              /\ Unpacked.ErrExternal = r

\* C25: a chain of two links with different messages over a root that has
\* a property and holds no foreign error has been unpacked.
UnpackFlattensWitness ==
  /\ last.op = "Unpack" /\ Len(Links(heap, last.err)) = 2
  /\ Unpacked.ErrChain[1].Msg # Unpacked.ErrChain[2].Msg
  /\ Unpacked.ErrChain[2].Msg = heap[last.err].msg
  /\ LenKVs(Unpacked.ErrRoot.kvs) = 1
  /\ Unpacked.ErrExternal = 0

\* C26 as stated: for a RootNode e that wraps no join aggregate and a native
\* target with the message and the code of e, Is is true whatever
\* properties the two carry.
RootIsIgnoresProperties ==
  (/\ last.op = "Is" /\ IsRoot(heap, last.err) /\ ~HasJoin(heap, last.err)
   /\ Target # 0 /\ IsNative(heap, Target)
   /\ heap[last.err].msg = heap[Target].msg
   /\ heap[last.err].code = heap[Target].code)
  => /\ last.flag
     /\ rootErrorIs(heap, stacks, last.err, Target)

\* C26: Is of two roots with one message and one code, the first with a
\* property and the second without, is false.
RootIsComparesProperties ==
  /\ last.op = "Is" /\ ~last.flag
  /\ IsRoot(heap, last.err) /\ ~HasJoin(heap, last.err)
  /\ Target # 0 /\ IsRoot(heap, Target)
  /\ heap[last.err].msg = heap[Target].msg
  /\ heap[last.err].code = heap[Target].code
  /\ LenKVs(heap[last.err].kvs) = 1 /\ LenKVs(heap[Target].kvs) = 0

\* C27 as stated: With completes without fault for every error and every
\* Field a caller can build.
WithNeverFaults ==
  last.op = "With" => last.str # Panic

\* C27: With of a root and of one Field of CodeType whose Value is no Code
\* has panicked, and the root is as it was.
WithPanicsWitness ==
  /\ last.op = "With" /\ last.str = Panic
  /\ IsRoot(heap, last.err) /\ Len(last.fields) = 1
  /\ last.fields[1].Type = CodeType /\ last.fields[1].Value = NotACode
  /\ heap[last.err].code = DEFAULT_ERROR_CODE_NEW

GlobalWrapOps == {"Wrap", "Wrapf", "PassThrough"}

\* C28: Wrap, Wrapf and PassThrough of a global root return a chain over a
\* new RootNode that has the message, the code and the global flag of the
\* global root, no property and no ForeignError, whatever properties the
\* global root carries; the global root is left as it was.
GlobalCopyFields ==
  [][(/\ last'.op \in GlobalWrapOps /\ IsRoot(heap, last'.err)
      /\ heap[last'.err].global)
     => LET g == heap[last'.err]
            n == ChainRoot(heap', last'.ret)
        IN /\ n \notin Ids(heap) /\ IsRoot(heap', n)
           /\ heap'[n].msg = g.msg
           /\ heap'[n].code = g.code
           /\ heap'[n].global = g.global
           /\ heap'[n].kvs = NilKVs
           /\ LenKVs(GetKVs(heap', n)) = 0
           /\ heap'[n].next = 0
           /\ heap'[last'.err] = g]_vars

\* C28: a global root that carries a property has been passed through; the
\* new link has the property and the new root has none.
GlobalCopyFieldsWitness ==
  /\ last.op = "PassThrough" /\ IsRoot(heap, last.err)
  /\ heap[last.err].global /\ LenKVs(heap[last.err].kvs) = 1
  /\ IsWrap(heap, last.ret) /\ LenKVs(heap[last.ret].kvs) = 1
  /\ LenKVs(heap[ChainRoot(heap, last.ret)].kvs) = 0

WithOps == {"With", "WithCode", "WithProperty"}

\* C29: With, WithCode and WithProperty of a global root return that root
\* itself, with the fields applied to it in place and no node added; and a
\* Wrap of a global root yields a chain whose new root has the code the
\* global root has at that time, so the code an earlier WithCode gave it.
WithOnSentinel ==
  [][((/\ last'.op \in WithOps /\ IsRoot(heap, last'.err)
       /\ heap[last'.err].global)
      => /\ last'.ret = last'.err
         /\ Len(heap') = Len(heap)
         /\ heap'[last'.err] = WithFields(heap[last'.err], last'.fields)
         /\ \A i \in Ids(heap) : i # last'.err => heap'[i] = heap[i])
     /\ ((/\ last'.op = "Wrap" /\ IsRoot(heap, last'.err)
          /\ heap[last'.err].global)
         => heap'[ChainRoot(heap', last'.ret)].code
              = heap[last'.err].code)]_vars

\* C29: the code of a global root has been changed by WithCode, and the
\* root of a later Wrap of it has that code.
WithOnSentinelWitness ==
  /\ last.op = "Wrap" /\ IsRoot(heap, last.err) /\ heap[last.err].global
  /\ heap[last.err].code = CodeInvalidArgument
  /\ ChainRoot(heap, last.ret) # last.err
  /\ heap[ChainRoot(heap, last.ret)].code = CodeInvalidArgument

\* The code and the properties of the node err itself, UNKNOWN and none for
\* nil and for a foreign error.
HeadCode(h, err) ==
  IF err # 0 /\ h[err].kind \in {"root", "wrap"} THEN h[err].code
  ELSE CodeUnknown

HeadKVs(h, err) ==
  IF err # 0 /\ h[err].kind \in {"root", "wrap"} THEN h[err].kvs
  ELSE NilKVs

\* C30: GetCode, GetKVs, GetProperty and GetPropertyP report the code and
\* the properties of the node err itself, never those of a node below it:
\* asked about the error a Wrap has just returned, GetCode is INTERNAL and
\* GetKVs is empty, whatever the wrapped error carries; for nil and for a
\* foreign error GetCode is UNKNOWN and no property is found.
HeadOnly ==
  [][/\ last'.op = "GetCode" => last'.ret = HeadCode(heap, last'.err)
     /\ last'.op = "GetKVs" => last'.fields[1] = HeadKVs(heap, last'.err)
     /\ last'.op \in {"GetProperty", "GetPropertyP"}
        => (last'.flag
            <=> LET v == HeadKVs(heap, last'.err)[last'.fields[1].Key]
                IN v # Absent /\ ValueType(v) = last'.fields[1].Value)
     /\ last.op = "Wrap" /\ last.ret # 0 /\ last'.err = last.ret
        => /\ last'.op = "GetCode" => last'.ret = CodeInternal
           /\ last'.op = "GetKVs" => LenKVs(last'.fields[1]) = 0
           /\ last'.op \in {"GetProperty", "GetPropertyP"} => ~last'.flag
     /\ ~IsNative(heap, last'.err)
        => /\ last'.op = "GetCode" => last'.ret = CodeUnknown
           /\ last'.op = "GetKVs" => LenKVs(last'.fields[1]) = 0
           /\ last'.op \in {"GetProperty", "GetPropertyP"} => ~last'.flag]_vars

\* C30: GetCode has been asked about a link over a root that has another
\* code and a property, and has answered INTERNAL.
HeadOnlyWitness ==
  /\ last.op = "GetCode" /\ IsWrap(heap, last.err)
  /\ heap[heap[last.err].next].code = CodeInvalidArgument
  /\ LenKVs(heap[heap[last.err].next].kvs) = 1
  /\ LenKVs(heap[last.err].kvs) = 0
  /\ last.ret = CodeInternal

====
